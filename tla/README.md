# Verification of cluster-api-provider-rke2

TLA+ models of the controllers of this repository, checked with TLC on small
instances and, for the properties that matter most, proved with TLAPS for
every value of the constants. Paths below are relative to `src/`.

## The system

The repository holds two controller managers and a runtime extension for
Cluster API. All of them keep their state in Kubernetes objects; a reconcile
is a sequence of API calls on objects it read earlier, mostly from a cache.

| Part | State | Operations | What makes it hard |
| --- | --- | --- | --- |
| init lock (`pkg/locking`) | a ConfigMap that names its holder | Lock, Unlock | ten concurrent reconciles; Unlock does not ask who holds the lock; the holder may be deleted |
| bootstrap controller (`bootstrap/internal/controllers`) | token secret, data secret and status of each RKE2Config | init, control plane join, worker join | ten reconciles at once, restarts between secret and status, `clusterctl move` drops the status, cached reads |
| lifecycle hooks and deletion (`controlplane/.../lifecycle_hook.go`) | annotations and deletion timestamps of Machines, annotations of Nodes | apply, run and release the pre-terminate hook, delete everything | ordering of several deletions, a lagging list, Machines whose Node is not known yet |
| scaling and rollout (`scale.go`, `rke2controlplane_controller.go`) | number and freshness of Machines | initialize, scale up, scale down, upgrade | decisions on a snapshot, overlapping reasons to delete |
| remediation (`remediation.go`) | in-progress annotation | choose, check, delete | quorum arithmetic on conditions, a crash between deletion and annotation |
| status and conditions (`status.go`, `pkg/rke2/workload_cluster*.go`) | initialized flag and condition, health conditions | update | each of them is a reconcile behind the other |
| etcd membership and leadership (`pkg/rke2/workload_cluster_etcd.go`, `pkg/etcd`) | members, leader | remove a member, move the leader | the candidate may have no Node |
| in-place updates (`inplace*.go`, `pkg/capi/inplace`, `pkg/capi/hooks`, `controlplane/internal/util/ssa`) | annotations and field owners of a Machine, its config and its infrastructure | can update, trigger, complete, synchronize | five writes that must all happen, once; two field owners; edits meanwhile |
| in-place update extension (`cmd/extension`) | plan secret shared with the agent of the node and with Rancher | can update, update | several writers of one secret |
| certificates and kubeconfig (`pkg/secret`, `pkg/kubeconfig`) | authority and kubeconfig secrets, cache of client certificates | look up, generate, save, sign, rotate | both controllers generate, users supply |
| runtime extensions (`pkg/capi/registry`, `extensionconfig`, `runtimeclient`) | ExtensionConfigs and a registry in each manager | discover, validate, register, warm up, call | two managers, edits between discovery and registration, restarts |
| API objects (`bootstrap/api`, `controlplane/api`, `pkg/registration`) | stored objects in either version | default, validate, convert, patch | clients of two versions, rules that are younger than the objects |
| bootstrap data (`pkg/rke2`, `bootstrap/internal/cloudinit`, `ignition`) | referenced secrets and config maps | read, collect, render, store | many reads of objects that users edit; files and sections that share a name |

`PROJECT.json` lists every part with its sources, what is left out and why,
and the hazards, each at the line where it bites.

## Modules

* **InitMutex** has the API calls of `Lock` and `Unlock`, one action each,
  with their errors. **Bootstrap** extends it with the bootstrap controller:
  one process per RKE2Config, whose label `pc[c]` says which API call comes
  next. `token`, `data`, `status` and `ref` (the owner names the data secret)
  are the stored objects, `memToken` and `holder` what a reconcile holds in
  memory. The config and its owner are read from a cache: an old read may show
  neither status nor `ref`, and the config is then handled again (`again`).
  When that happens to the initializer and its second attempt fails, the
  published initialization is `Undone`: the lock is released although the data
  is out. The Cluster and the RKE2ControlPlane are their cached views. The
  Machine controller, the providers, a move of the cluster and deletions are
  the environment. The content of the data is abstracted to its kind (init or
  join) and its token.
* **LifecycleHooks** has `syncMachines`, the pre-terminate hook and
  `reconcileDelete` at the grain of API calls. `obj` are the Machines in the
  API server, `cache` the informer cache, `mem` the Machines of the running
  reconcile. The hook annotation is modelled by its field managers
  (`apply`, `update`), because `syncMachines` gives up the one and
  `applyHookToActiveMachines` sets the other. Machines may carry the hook of
  another controller, the RKE2ControlPlane the legacy annotation, and a Node
  may be deleted before RKE2 has confirmed the removal of its member. Which of
  these happen, and whether `cache` lags, is a record of `Bounds`, chosen
  initially. The rest of the reconcile (`Act`) creates or deletes any Machine
  it could.
* **ControlPlane** has the decisions of the reconcile: which Machine is
  created or deleted and when, on a snapshot `snap` read at its beginning.
  The hook is taken at the grain LifecycleHooks justifies, one release at a
  time and after the member has left. etcd is its set of members, of which
  the ones on failed hosts (`down`) do not answer. Health conditions are saved
  with the Machine (`saved`), because a reconcile leaves them as they were for
  a Node it cannot match to a Machine while another Machine is provisioning
  (`workload_cluster_conditions.go:58`). The code looks Nodes up by the name
  of the Machine, which infrastructure providers are free not to give them:
  `SameNames` is FALSE, the general case, in every configuration.
  `annotated` and `recovered` are the Machines a user wants remediated and
  those found healthy again. `unreplaced` is a history variable that counts
  remediations since a Machine was last created.
* **BootstrapContract** is what the bootstrap controller promises: offers of
  data that the owners take, one initializer until the cluster is up, a control
  plane Machine is lost or an initialization undone, one token, offers that
  stay but for one that is redone when the cluster is up. **Bootstrap** maps its objects to
  it (`Offer`, `Contract`); `ImplementsContract` is the refinement.
* **MachineObjects** has the pure part of updates: an object is a function
  from its fields to a value and the managers that own it, and on it the
  operators for server side apply, the adoption of old managers, the desired
  Machine, config and infrastructure, `UpToDate`, the extension's patches and
  the plan. A spec tells apart only what the comparisons do: version, files,
  config, server, template, shape, metadata.
  **InPlaceUpdate** is the reconcile that uses them, one action per write of
  `triggerInPlaceUpdate` and of the creation of a Machine, with remediation,
  the Machine controller, the extension's `UpdateMachine` (its read of the plan
  secret and its write are two steps), the agent of each node, Rancher and the
  users. A creation fails in two ways: nothing was created, or the object was
  and the answer is lost. `refused` is a history variable: the Machines whose
  trigger was completed with a spec the extension would have refused.
* **Certificates** has `LookupOrGenerate`, one call a step, for both
  controllers, the kubeconfig and the etcd client. A key pair is who generated
  it and when; a certificate is its issuer. A user's etcd CA may have an
  elliptic curve key and is then the client's certificate itself.
* **RuntimeExtensions** has two managers, Cluster API's own, which discovers
  and patches ExtensionConfigs (the conditions in one call, the rest of the
  status in the next), and the one of this repository, which only reads them:
  caches, queues, warm-up, registries, and the question of the control plane
  controller whether a Machine can be updated in place.
* **Conversion** has both directions of the four kinds, **Registration** the
  addresses nodes join at, and **ApiObjects** the API server around them:
  every read and write goes through conversion, defaulting and validation, for
  a user of v1beta2, a tool that knows v1beta1 only, and the controllers. The
  migration of stored objects writes the status, past the webhooks, for all
  kinds but the control plane template. The fields are those the versions
  treat differently; one more in each group stands for those copied as they
  are.
* **NodeData** has the readings of a node's configuration in their order,
  the files each adds, and what cloud-init or Ignition makes of the list. A
  file is its path and what it holds, an entry of an object at a revision.
* **MC...** give the constants their values; **...Proofs**,
  **BootstrapRefinement** and **ControlPlaneTypes** hold the theorems.

The modules overlap where one takes for granted what another shows:
ControlPlane has the set of outdated Machines that MachineObjects computes,
Bootstrap the data that NodeData assembles from the authorities of
Certificates, and InPlaceUpdate an extension that RuntimeExtensions finds.

Three conventions. Cached reads lag behind the API server, as those of both
managers do for everything but Secrets and ConfigMaps (`bootstrap/main.go:190`,
`controlplane/main.go:223`): a lagging read is a disturbance like a failed call
or a restart. Disturbances and deletions are bounded by constants, since each
costs nothing and without a bound nothing could ever be promised; the theorems
hold for every bound. Names follow the code.

Simplifications. Early returns that only wait (paused objects, workers to be
deleted first, the pre-drain hook) are absent, because a reconcile that does
nothing is always possible between two steps. ControlPlane has managed,
embedded etcd and reads the RKE2ControlPlane fresh. Failure domains leave it a
free choice among eligible Machines. A Machine is Ready when its Node is.
ControlPlane and LifecycleHooks have in-place updates off, and InPlaceUpdate
has an initialized control plane, lists that are up to date, and removes a
deleted Machine without its hook. `checkRetryLimits` always allows a remediation: the annotation it reads
from a Machine is written nowhere in the code.

## Runs

Each run is a configuration `<cfg>.cfg` of the module with the same prefix.
Deadlock is checked except in LifecycleHooks, where all Machines may be gone
and a stale list cannot change any more, and in ApiObjects and NodeData, which
end when the clients have no more edits and the data is published.

| Run | Configuration | Bounds | Checks |
| --- | --- | --- | --- |
| bootstrap_faults | `MCBootstrap_faults` | 2 control plane Machines and a worker, 1 deletion, 2 faults (old reads, failed calls, restarts, moves); 323k states | `TypeOK`, `InitExclusive`, `TokenAgreement`, `DataStable`, `ImplementsContract`, `AllBootstrapped` |
| hooks_safety | `MCLifecycleHooks_safety` | 2 Machines and room for a third, and one of: a lagging list with a fault, a user's deletion, the deletion of the RKE2ControlPlane, other hooks, a lost Node, a lost Node of a legacy control plane; 363k states | `SerialRelease`, `NoDeadMember`, `DeletionCompletes` |
| cp_safety | `MCControlPlane_safety` | from 0 Machines with scaling, a false alarm, a lagging list and a restart; from 5 with a rollout and 2 failures; from 3 with rollout, scaling, a failure and a lagging list; from 3 with an annotated Machine, a false alarm and a lagging list; 326k states | `TypeOK`, `RemediationPaced`, `OneDisruption` |
| cp_rollout | `MCControlPlane_rollout` | 3 Machines and a restart with a rollout and a failure, a rollout and a user's deletion, or an annotated Machine and a false alarm; a scale up from 1 Machine with two lagging lists and a restart; 68k states | `QuorumKept`, `Remediated`, `Converges` |
| inplace_safety | `MCInPlaceUpdate_safety` | 2 or 3 Machines and room for 5 in all; two edits around an interrupt; a failed creation, a lost answer and a deletion; Machines annotated for deletion and for remediation; a sick one without surge; a failed plan and one of Rancher's; 99k states | `OneUpdateAtATime`, `PendingUpdateIsCoherent`, `SuccessMeansApplied`, `UpToDateNodeRunsSpec`, `ObjectsFollowMachines`, `PlansRunToTheirEnd`, `Converges` |
| certificates_safety | `MCCertificates_safety` | legacy and not; two supplied authorities and a fault; a kubeconfig supplied or expiring; an etcd CA rotated, of either kind of key, deleted, forgotten; 173k states | `KubeconfigFromStored`, `StoredAuthorityKept`, `NodeTrustsStored`, `ClusterReachable` |
| extensions_safety | `MCRuntimeExtensions_safety` | 1 ExtensionConfig and a second one, 3 extensions, one of them invalid; edits, pauses, deletion, a rotated CA, an outage, a lost call, up to 2 restarts; 140k states | `HandlersBelongToTarget`, `RestartReplacesNoMachine`, `RegistriesConverge` |
| api_safety | `MCApiObjects_safety` | one object of each of four kinds, new or from the earlier release, 2 or 3 edits by two clients, a gate turned off, a reference that cannot be resolved; 49k states | `PatchesAccepted`, `EditKeepsTheRest`, `ScalingRulesKept`, `StatusRecovers` |
| nodedata_safety | `MCNodeData_safety` | 17 nodes: each role, format and reference, up to 2 registries, sections and files of the user's own; 3 edits of the referenced objects at any moment; 141k states | `NamedFilesArrive`, `DataPublished` |
| cp_initstale | `MCControlPlane_initstale` | from 0 Machines, two lagging lists | `InitializeOnce` is violated |
| api_template | `MCApiObjects_template` | one control plane template and one edit | `HubDataPreserved` is violated |
| nodedata_registries | `MCNodeData_registries` | 2 registries | `EveryRegistryConfigured` is violated |

What the passing runs show, with the exceptions the properties name.
*Bootstrap*: until the cluster is up one config initializes it, as long as no
control plane Machine is deleted and no published initialization undone; data
that was taken stays, except that init data of a config handled again becomes
join data once the cluster is up. *Hooks*: members leave etcd one after the
other, from a lagging list as well while only the controller deletes Machines;
a deletion completes unless the Node of a deleted Machine is lost. *Control
plane*: one Machine at a time is taken down, remediations wait for the
replacement unless a reconcile is cut off, a rollout with one failure or
deletion keeps the quorum and completes, and so does a scale up from old lists.
*Updates in place*: one Machine at a time is being updated or replaced; the
three objects of a pending update describe one spec; success is reported only
for a plan the agent has applied; a Machine that counts as up to date runs the
spec, unless it has lost its node or its trigger was completed with a spec the
extension would have refused; config and infrastructure exist as long as their
Machine, but for one exception per interrupt or lost answer; a plan is replaced
only when it is done, one of Rancher's apart that comes between read and write;
and everything converges, metadata included, unless an update failed, which by
design waits for a human. *Certificates*: two controllers, a user who supplies
authorities and failed calls leave the first node, the kubeconfig and the etcd
client with the authorities that are stored; a user who deletes one is excepted
(`MCCertificates_deleted`). *Extensions*: the handlers registered are those of
the address that will be called, for the read-only manager from the moment it
has seen the last patch of the status, and neither restarts nor deletions leave
a registry behind the objects for ever. *API*: an edit in one version loses
nothing of the other but the infrastructure reference of a control plane
template (`api_template`), no sequence of updates gets around the scaling
rules, and objects older than a rule stay patchable. *Node data*: each file the
configuration names arrives, unless the user writes that very path, and the
data is published unless the node asks for what is never rendered (a TLS
setting without a secret, with Ignition a path with two writers).

The type invariant `TypeOK` of LifecycleHooks is a theorem. Those of the five
modules without theorems hold in the same instances (`INVARIANT TypeOK`).

The bounds are the smallest in which the cases meet: two contenders for the
lock and one that waits for them; one deletion by each of those who delete; a
remediation, a rollout and a scaling that overlap; five members for two
failures that etcd survives; an edit after, and one during, an update; one
user's and one controller's key pair for the same purpose; two revisions of an
object around each read; two clients whose reads and writes cross. `N` in
`cp_rollout` leaves room to replace every Machine and one replacement. Where the
number of Machines could matter beyond that the theorems below hold for any.

**Fairness.** The work queue retries a reconcile until it has nothing to do,
so each controller's steps are weakly fair; so are the Machine controller, the
nodes, MachineHealthCheck and the informer. In RuntimeExtensions the
extensions come back after an outage and a pause is ended, without which no
retry could succeed; in NodeData `DataPublished` assumes that the user
completes the referenced objects in the end. Faults, failures of hosts,
deletions and changes by users are never owed.

**Disagreements with the documentation.** Three are runs of `PROJECT.json`, with
the findings that quote the lines.

* `nodedata_registries`: `GenerateRegistries` makes the map of configurations
  anew for each registry (`registries.go:148`), so that only the one visited
  last is configured. (Moving the map out of the loop would not be enough: the
  TLS files of all registries have the same paths.)
* `cp_initstale`: the list that `scale.go:59` calls "an uncached read" comes
  from the cached client (`rke2controlplane_controller.go:341`). A reconcile
  whose two lists both miss the first Machine creates a second one.
* `api_template`: "Preserve Hub data on down-conversion" (`conversion.go:143`
  and `164`); for control plane templates only the taints are restored (line
  148), and the infrastructure reference is erased by the next write through
  v1beta1.

Further configurations end in a violation as well. Run them with
`tlc -config <cfg> <module>`.

| Configuration | Violates | What happens, and what the code says of it |
| --- | --- | --- |
| `MCBootstrap_only` | `OnlyInitializer` | A Machine that read the Cluster before it was initialized takes the lock a joining Machine has just deleted, and initializes a second time; `control_plane_init_mutex.go:49` has "the first and only node to initialize an RKE2 cluster". `InitExclusive` and the contract therefore speak of the time until the Cluster is initialized, and of Machines that are not deleted meanwhile, since a late Unlock of a deleted Machine drops its successor's lock. |
| `MCLifecycleHooks_member` | `NoDeadMemberAtAll` | Between the apply of `syncMachines`, which drops the hook a Machine was created with, and the patch that puts it back, a Machine deleted by a user terminates as an etcd member; `desired_state.go:103` sets the hook "so we can later remove the etcd member right before Machine termination". |
| `MCLifecycleHooks_orphan` | `NoOrphan` | `reconcileDelete` removes the finalizer when its list is empty (`rke2controlplane_controller.go:602`); a list that lags does not show a Machine just created, which then outlives the RKE2ControlPlane with nobody to remove its hook. |
| `MCLifecycleHooks_lostnode` | `DeletionCompletesWithoutNode` | When the Node of a deleted Machine is gone, with it its annotations, the removal of the member is never confirmed (`workload_cluster_etcd.go:119` returns false for a Node it does not find), and the hook is never released. |
| `MCControlPlane_alarm` | `RemediationPreservesQuorum` | An etcd member is healthy when its Node exists, so a false alarm next to a failed host costs the quorum; `remediation.go:249`: "Remediation MUST preserve etcd quorum." |
| `MCControlPlane_stuck` | `Remediated` | The in-progress annotation of a remediation that needs no replacement stops all later ones; `rke2controlplane_types.go:47`: "in between having deleted an unhealthy machine and recreating its replacement". |
| `MCControlPlane_blocked` | `Remediated` | The hook of a deleted Machine waits for a NodeRef on the newest Machine, whose remediation (`rke2controlplane_controller.go:515`) waits for the hook. |
| `MCControlPlane_names` | `Converges` | A scale up from a lagging list creates two Machines at once, and one of them fails before it has a Node. While it counts as provisioning the Nodes of the others are passed over (`workload_cluster_conditions.go:58`), so the second one, though it has joined etcd, never gets its healthy condition; the quorum rule then refuses to remediate the failed Machine, for ever. |
| `MCInPlaceUpdate_refused` | `NodeRunsWholeSpec` | A trigger that was cut off is completed with the spec of the moment (`rke2controlplane_controller.go:504-513`), without asking the extension about it: after a second edit the Machine's config or infrastructure gets values the node never sees, and the Machine counts as up to date. |
| `MCInPlaceUpdate_lost` | `CleanupTakesOnlyDangling` | A creation whose answer is lost is taken for a failed one, and the clean up ("attempt to clean up any dangling resources", `scale.go:392`) deletes config and infrastructure of the Machine that exists; `Converges` shows that it is replaced. |
| `MCInPlaceUpdate_files` | `Converges` | An edit removes the files a config was created with: `manager`, which created it, still owns them, so the apply of the trigger leaves them, and the Machine is updated in place again and again. |
| `MCInPlaceUpdate_legacy` | `Converges` | An agent that does not know `plan-state` leaves it at `pending`; the next plan then waits for ever for the state to become terminal. The comment at `secret.go:60` avoids "poll forever against such an agent" for the completion only. |
| `MCCertificates_deleted` | `NodeTrustsStored` | `Certificates.Lookup` stops at the first secret that is missing (`certificates.go:233`, although it "looks up each certificate"): after a user deletes one authority, those after it are generated too, and the first node gets them although their secrets, which stay, hold others. |
| `MCApiObjects_address` | `JoinAddressSupplied` | An update may clear the address of the method "address": `validateRegistrationMethod` (`rke2controlplane_webhook.go:228`, "registrationAddress must be supplied") is called on creation only, and the list whose length `registration.go:73` checks always has an element. |
| `MCApiObjects_upgrade` | `InitializedKept` | `ConvertTo` returns before it restores anything when there is no annotation (`conversion.go:69`), so `initialized` of an object stored as v1beta1 is lost, although `conversion.go:252` converts it; `StatusRecovers` shows that the next reconciles restore it. |

Met while modelling and not runs of their own. API: v1beta1 readers always see
`ready` false (`conversion.go:272` sets it from a field just reset);
`filterInternalFirst` returns the first address of either kind, not an internal one first, as
`docs/book/src/02_topics/02_node-registration-methods.md:43` has it; with the
taint feature gate turned off an object that has taints cannot be patched by its
controller. Node data: an auth secret without credentials silently drops every
registry (`registries.go:126`); a registry whose TLS setting names no secret,
`insecureSkipVerify` alone for one, makes every attempt fail
(`registries.go:54`); a server with a cloud provider config lists its
file twice, which Ignition refuses; files taken from one secret are read one
call each and may come from different revisions
(`rke2config_controller.go:608`); cloud-init checks the
artifacts' checksum also when the node is not air-gapped. Others: a plan that
Rancher submits between the extension's read and its write is lost
(`secret.go:80`); `DropManagedFields`, described as done once, repeats;
the requeue `reconcileKubeconfig` asks for is dropped when there is no error;
one ExtensionConfig that stays invalid keeps both registries cold; and the
warm-up does not ask whether an object is paused.

What else depends on the bounds. With a lagging list and a user's deletion in
one behaviour two hooks may be released at once, which `SerialRelease` excepts. With faults a second remediation may start early, since the
annotation is saved after the deletion. With lagging lists a Machine may be
created next to one that has no Node yet, and beyond `replicas + maxSurge`; it
is taken away again, which `Converges` shows.

## Theorems

* **BootstrapProofs**: `TypeCorrect`, `OneToken` (all data carries one token)
  and `MutualExclusion`, for any number of configs, old reads, failed calls,
  restarts, moves and deletions. `InitExclusive` itself speaks of the time until
  the Cluster is initialized, a Machine deleted or an initialization undone. It
  is not inductive. `IInv` adds that, until then, whoever initializes holds the
  lock and only its holder, having published nothing, releases it; that a
  reconcile under way has published nothing or is one that is handled again;
  and that a config joins only an initialized Cluster.
* **BootstrapRefinement**: `Refinement`, `Spec => ImplementsContract`, and
  `PublishedDataIsStable`, from the same assumptions. Each action maps to a
  step of the contract or to a stutter; `RInv`, on top of `IInv`, says that a
  config whose status or owner names data has some, that only control plane
  Machines have init data, and that join data means the cluster is up. It is
  what makes a config that is handled again store the same data, or join data
  with the same token.
* **LifecycleHooksProofs**: `TypeCorrect` and `OneReleaseAtATime`, for any
  number of Machines and any bounds. Two invariants, one for each kind of list.
  `Fresh`: where lists are up to date the reconcile knows each released Machine
  that is still there, and while it is about to release a hook no Machine it
  knows as being deleted has lost its. `Lagging`: where they are not, and only
  the controller deletes, one Machine at most is being deleted, the cache lists
  it, because the list it was picked from did, and the answers to
  `syncMachines` reveal it before another is picked.
* **ControlPlaneTypes**: `TypeCorrect`, through the stronger `Typed`: Machines
  are created in order, and caches and snapshots know only of those that were.
* **ControlPlaneProofs**, each from `Typed` and one more invariant:
  * `OneAtATime` (`OneDisruption`, from fresh and from lagging lists). `Quiet`
    says that a reconcile past the hooks has seen that nothing is being
    deleted, and that a lagging list contains whatever a reconcile could have
    deleted on the strength of an earlier one.
  * `PacedRemediation` (`RemediationPaced`). `Paced` says that until the
    replacement is there the annotation, stored or in memory, is as young as
    the youngest Machine.

The invariants were checked with TLC before they were proved. Only
model-checked: liveness, what needs majorities of changing sets (`QuorumKept`)
or the history of a deletion (`NoDeadMember`), and the properties of
InPlaceUpdate, Certificates, RuntimeExtensions, ApiObjects and NodeData. Proofs
assume what the named `ASSUME`s of the modules say, which TLC evaluates.

## Not modelled

* Text: the templates of cloud-init and Butane, the flags copied one to one into
  `config.yaml`, the instructions of a plan, condition messages, events and logs.
  They are data no decision reads.
* Cryptography and encodings: a key pair is a name. A badly formatted secret is
  a failed call.
* Conditions that are only reported, their aggregation and node metadata
  (`status.go`, `conditions.go`, `workload_cluster.go`).
* Which etcd member leads, and the client's search for it (`pkg/etcd`): the
  models have only whether the hand-over fails.
* Failure domains (any eligible Machine may be chosen), the pre-drain hook and
  remediation retries (see Simplifications).
* Of runtime extensions: namespace selectors, the response cache, settings and
  responses that report a failure. Of the API: conditions and the fields copied
  as they are, one of which stands for all. Of server side apply: the cache of
  unchanged requests. Of Ignition: Flatcar's file system and SELinux steps.
* The proxy (`pkg/proxy`) and the set-up of the managers: pure I/O. Deep copies
  and the conversions the generator writes for equal types: no behaviour.

## Plan

1. Done: init lock, bootstrap and its contract, lifecycle hooks, control plane
   decisions, updates in place, certificates, runtime extensions, API objects,
   node data.
2. Theorems: `NodeTrustsStored` and `StoredAuthorityKept` for any number of
   faults and users; `OneUpdateAtATime`; `NoDeadMember` for every number of
   Machines.
3. A serial hand-over that LifecycleHooks implements and ControlPlane uses.
4. etcd leadership: who leads after a scale down.
