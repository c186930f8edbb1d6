--------------------------- MODULE MachineObjects ---------------------------
(***************************************************************************)
(* The three API objects behind a control-plane Machine (the Machine, its  *)
(* RKE2Config and its infrastructure machine), the managers that own their *)
(* fields, and the pure functions of the RKE2ControlPlane that compute,    *)
(* write and compare them.                                                 *)
(*                                                                         *)
(* An object maps a field to its value and to the field managers that own  *)
(* it.  None is the value of a field that is not set.                      *)
(***************************************************************************)
EXTENDS FiniteSets, TLC

CONSTANTS None, Missing     \* an unset field; an object that does not exist

rke2ManagerName == "rke2controlplane"
rke2MetadataManagerName == "rke2controlplane-metadata"
classicManager == "manager"
Managers == {rke2ManagerName, rke2MetadataManagerName, classicManager}

Unset == [val |-> None, own |-> {}]

MachineFields == {"name", "version", "server", "meta", "updating", "pending"}
ConfigFields  == {"files", "config", "turtles", "meta", "updating"}
InfraFields   == {"clonedFrom", "shape", "meta", "updating"}

NewObject(fields) == [f \in fields |-> Unset]

(* What an intent says: the fields it sets.                                *)
Says(intent) == {f \in DOMAIN intent : intent[f] # None}

(* Server-side apply with forced ownership: the intent's fields are set    *)
(* and, where that changes the value, taken from their owners; a field the *)
(* manager owned and no longer says goes, unless another manager owns it.  *)
Apply(obj, manager, intent) ==
    [f \in DOMAIN obj |->
        IF f \in Says(intent)
        THEN [val |-> intent[f],
              own |-> IF obj[f].val = intent[f] THEN obj[f].own \cup {manager} ELSE {manager}]
        ELSE IF obj[f].own = {manager} THEN Unset
        ELSE [obj[f] EXCEPT !.own = @ \ {manager}]]

(* A create or a merge patch: "manager" owns what it writes.               *)
Write(obj, values) ==
    [f \in DOMAIN obj |->
        IF f \notin DOMAIN values \/ obj[f].val = values[f] THEN obj[f]
        ELSE IF values[f] = None THEN Unset
        ELSE [val |-> values[f], own |-> {classicManager}]]

HasFieldsManagedBy(obj, manager) == \E f \in DOMAIN obj : manager \in obj[f].own

Disown(obj, fields) ==
    [f \in DOMAIN obj |-> IF f \in fields THEN [obj[f] EXCEPT !.own = @ \ {classicManager}] ELSE obj[f]]

(* "manager" gives up the labels and annotations of an object that         *)
(* rke2controlplane does not yet manage.                                   *)
DropManagedFields(obj) ==
    IF HasFieldsManagedBy(obj, rke2ManagerName) THEN obj
    ELSE Disown(obj, {"meta", "updating", "clonedFrom", "turtles"})

(* "manager" gives up the whole Machine; the seeding entry keeps the name. *)
CleanUpManagedFieldsForSSAAdoption(obj) ==
    IF HasFieldsManagedBy(obj, rke2ManagerName) THEN obj
    ELSE [Disown(obj, DOMAIN obj) EXCEPT !["name"].own = {rke2ManagerName}]

-----------------------------------------------------------------------------
(* The desired state, for an RKE2ControlPlane whose spec is                *)
(* [version, files, config, server, template, shape, meta]: its version,   *)
(* RKE2ConfigSpec.Files, the rest of RKE2ConfigSpec, its ServerConfig, the *)
(* name and the contents of its infrastructure template, the metadata of   *)
(* its MachineTemplate.                                                    *)

ComputeDesiredMachineAnew(spec, existing) ==
    [name |-> "name", version |-> spec.version, server |-> spec.server, meta |-> spec.meta]

(* An existing Machine keeps its version and its server configuration.     *)
ComputeDesiredMachine(spec, existing) ==
    [name    |-> "name",
     version |-> IF existing = Missing THEN spec.version ELSE existing["version"].val,
     server  |-> IF existing = Missing THEN spec.server ELSE existing["server"].val,
     meta    |-> spec.meta]

(* The Machine of an up-to-date result, for comparisons and updates in     *)
(* place: by the same rules (desiredstate), but with the version of the    *)
(* spec.                                                                   *)
DesiredMachine(spec, existing) ==
    [name |-> "name", version |-> spec.version, server |-> existing["server"].val, meta |-> spec.meta]

(* The RKE2Config and the infrastructure machine of an up-to-date result.  *)
ComputeDesiredRKE2Config(spec) ==
    [files |-> spec.files, config |-> spec.config, meta |-> spec.meta]

ComputeDesiredInfraMachine(spec) ==
    [clonedFrom |-> spec.template, shape |-> spec.shape, meta |-> spec.meta]

-----------------------------------------------------------------------------
(* Creation of the objects of a new Machine.                               *)

CloneInfraTemplate(spec) ==
    Write(NewObject(InfraFields), [clonedFrom |-> spec.template, shape |-> spec.shape])

(* Rancher Turtles' webhook adds its annotation and its file.              *)
Injected == "system-agent-install"

Inject(files) == IF files = None THEN {Injected} ELSE files \cup {Injected}

GenerateRKE2Config(spec, turtles) ==
    Write(NewObject(ConfigFields),
          [files   |-> IF turtles THEN Inject(spec.files) ELSE spec.files,
           config  |-> spec.config,
           turtles |-> IF turtles THEN "yes" ELSE None])

CreateMachineObject(spec) ==
    Apply(NewObject(MachineFields), rke2ManagerName, ComputeDesiredMachine(spec, Missing))

-----------------------------------------------------------------------------
(* syncMachines, for one Machine.                                          *)

UpdateMachine(machine, spec) ==
    Apply(CleanUpManagedFieldsForSSAAdoption(machine), rke2ManagerName,
          ComputeDesiredMachine(spec, machine))

UpdateExternalObjectAsOwner(obj, spec) ==
    Apply(DropManagedFields(obj), rke2ManagerName, [meta |-> spec.meta])

UpdateExternalObject(obj, spec) ==
    Apply(DropManagedFields(obj), rke2MetadataManagerName, [meta |-> spec.meta])

SyncObject(obj, spec) == IF obj = Missing THEN Missing ELSE UpdateExternalObject(obj, spec)

SyncMachine(o, spec) ==
    [machine |-> UpdateMachine(o.machine, spec),
     infra   |-> SyncObject(o.infra, spec),
     config  |-> SyncObject(o.config, spec)]

-----------------------------------------------------------------------------
(* Is a Machine up to date?                                                *)

FilesAsTheyAre(config) == config["files"].val

(* The files of an RKE2Config without those Rancher Turtles injects.       *)
FilteredFiles(config) ==
    LET files == config["files"].val IN
    IF config["turtles"].val = None \/ files = None THEN files
    ELSE IF files \ {Injected} = {} THEN None ELSE files \ {Injected}

MatchServerConfig(spec, machine) ==
    machine["server"].val \in {None, spec.server}

MatchesRKE2BootstrapConfig(spec, o) ==
    /\ MatchServerConfig(spec, o.machine)
    /\ \/ o.config = Missing
       \/ /\ FilteredFiles(o.config) = spec.files
          /\ o.config["config"].val = spec.config

MatchesTemplateClonedFrom(spec, o) ==
    o.infra = Missing \/ o.infra["clonedFrom"].val \in {None, spec.template}

MatchesMachineSpec(spec, o) ==
    /\ o.machine["version"].val = spec.version
    /\ MatchesRKE2BootstrapConfig(spec, o)
    /\ MatchesTemplateClonedFrom(spec, o)

UpToDate(spec, o) == MatchesMachineSpec(spec, o)

EligibleForInPlaceUpdate(spec, o) ==
    ~UpToDate(spec, o) /\ MatchServerConfig(spec, o.machine)

-----------------------------------------------------------------------------
(* Can the extension absorb the difference?  It answers with the patches   *)
(* that put the desired version into the current Machine and the desired   *)
(* files into the current RKE2Config; what then still differs from the     *)
(* desired objects it cannot update.                                       *)

CanUpdateMachineSpec(current, desired) == [current EXCEPT !.version = desired.version]

CanUpdateRKE2ConfigSpec(current, desired) == [current EXCEPT !.files = desired.files]

(* The metadata of the current RKE2Config and infrastructure is taken from *)
(* the desired objects: syncMachines writes it.                            *)
CreateCanUpdateRequest(spec, o) ==
    [current |-> [machine |-> [version |-> o.machine["version"].val, meta |-> o.machine["meta"].val],
                  config  |-> [files |-> o.config["files"].val, config |-> o.config["config"].val],
                  infra   |-> [shape |-> o.infra["shape"].val]],
     desired |-> [machine |-> [version |-> DesiredMachine(spec, o.machine).version,
                               meta    |-> DesiredMachine(spec, o.machine).meta],
                  config  |-> [files  |-> ComputeDesiredRKE2Config(spec).files,
                               config |-> ComputeDesiredRKE2Config(spec).config],
                  infra   |-> [shape |-> ComputeDesiredInfraMachine(spec).shape]]]

CreateJSONPatch(before, after) ==
    [f \in {g \in DOMAIN after : after[g] # before[g]} |-> after[f]]

ComputeCanUpdateMachineResponse(request, machine, config) ==
    [machine |-> CreateJSONPatch(request.current.machine, machine),
     config  |-> CreateJSONPatch(request.current.config, config)]

DoCanUpdateMachine(request) ==
    ComputeCanUpdateMachineResponse(request,
        CanUpdateMachineSpec(request.current.machine, request.desired.machine),
        CanUpdateRKE2ConfigSpec(request.current.config, request.desired.config))

ApplyPatchToObject(object, patch) ==
    [f \in DOMAIN object |-> IF f \in DOMAIN patch THEN patch[f] ELSE object[f]]

ApplyPatchesToRequest(request, response) ==
    [request EXCEPT !.current.machine = ApplyPatchToObject(@, response.machine),
                    !.current.config  = ApplyPatchToObject(@, response.config)]

(* What is changed without an update in place is not compared.             *)
CleanupMachineSpecForDiff(machine) == [version |-> machine.version]

MatchesMachine(request) ==
    /\ CleanupMachineSpecForDiff(request.current.machine) = CleanupMachineSpecForDiff(request.desired.machine)
    /\ request.current.config = request.desired.config
    /\ request.current.infra = request.desired.infra

CanExtensionsUpdateMachine(spec, o) ==
    LET request == CreateCanUpdateRequest(spec, o)
    IN  MatchesMachine(ApplyPatchesToRequest(request, DoCanUpdateMachine(request)))

CanUpdateMachine(spec, o) ==
    /\ o.infra # Missing /\ o.config # Missing
    /\ CanExtensionsUpdateMachine(spec, o)

-----------------------------------------------------------------------------
(* An in-place update's marks on the Machine, and the writes that start it.*)

Updating(obj) == obj # Missing /\ obj["updating"].val # None

IsPending(machine) == machine["pending"].val # None

OnlyUpdating(machine) == Updating(machine)

IsUpdateInProgress(machine) == Updating(machine) \/ IsPending(machine)

MarkUpdating(machine) == Write(machine, [updating |-> "yes"])

(* The desired objects, without the metadata that syncMachines writes and  *)
(* with the mark the Machine controller waits for.                         *)
Marked(desired) == [desired EXCEPT !.meta = None] @@ [updating |-> "yes"]

TriggerInfra(infra, spec) == Apply(infra, rke2ManagerName, Marked(ComputeDesiredInfraMachine(spec)))

TriggerConfig(config, spec) == Apply(config, rke2ManagerName, Marked(ComputeDesiredRKE2Config(spec)))

TriggerMachine(machine, spec) ==
    Apply(machine, rke2ManagerName, DesiredMachine(spec, machine))

MarkAsPending(machine) == Write(machine, [pending |-> "UpdateMachine"])

MarkAsDone(machine) == Write(machine, [pending |-> None])

ClearUpdating(obj) == IF obj = Missing THEN Missing ELSE Write(obj, [updating |-> None])

-----------------------------------------------------------------------------
(* The extension's upgrade plan and what the plan secret says of it.  An   *)
(* air-gapped machine has no plan.                                         *)

AirGapped == "air-gapped"

BuildUpgradePlan(version, files, config) ==
    IF version = None \/ config = AirGapped THEN None
    ELSE [version |-> version, files |-> files]

Terminal == {"succeeded", "failed", "canceled"}

EvaluateByState(secret, plan) ==
    IF secret.state = "succeeded" THEN "Succeeded"
    ELSE IF secret.state = "failed" THEN "Failed"
    ELSE IF secret.state = None THEN "NotSubmitted" ELSE "Waiting"

EvaluateWithoutState(secret, plan) ==
    IF secret.plan # plan THEN "NotSubmitted"
    ELSE IF secret.applied = plan THEN "Succeeded"
    ELSE IF secret.failed = plan THEN "Failed" ELSE "Waiting"

EvaluatePlanOutcome(secret, plan) ==
    IF secret.plan = plan
    THEN IF secret.applied = plan THEN "Succeeded"
         ELSE IF secret.failed = plan THEN "Failed" ELSE "Waiting"
    ELSE IF secret.state # None /\ secret.state \notin Terminal THEN "Waiting" ELSE "NotSubmitted"
=============================================================================
