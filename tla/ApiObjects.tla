----------------------------- MODULE ApiObjects -----------------------------
(***************************************************************************)
(* One API object of this provider through its life: written in v1beta1 by *)
(* an earlier release or created now, edited by clients of either version, *)
(* defaulted and validated by the webhooks, migrated to the new storage    *)
(* version and given its status by the controller.                         *)
(*                                                                         *)
(* Every write goes through the hub: the API server converts the object,   *)
(* calls Default and Validate of v1beta2 and stores v1beta2.  A client     *)
(* edits what it has read; the write is refused when the object has        *)
(* changed in between.  The status is a subresource without webhooks.      *)
(***************************************************************************)
EXTENDS Conversion, Registration, FiniteSets

CONSTANTS
    Missing,        \* no object, no copy
    Scenarios       \* the object, the machines behind it, what users and faults do

Disturbances == {"create", "edit", "gate", "unserve"}

VARIABLES
    setting,    \* the scenario: kind, machines, host, secret, choices, manifests
    stored,     \* the object in the API server and the version it is stored in
    view,       \* what each client has read: the object, and what was stored then
    gate,       \* the feature gate MachineTaintPropagation
    served,     \* the infrastructure kind is known to the RESTMapper
    left        \* what users and faults may still do

vars == <<setting, stored, view, gate, served, left>>

kind == setting.kind

Clients == {"user", "tool", "controller"}

(* The tool is a client of v1beta1, the others use v1beta2.                *)
VersionOf(c) == IF c = "tool" THEN "v1beta1" ELSE "v1beta2"

Happens(d) == left[d] > 0 /\ left' = [left EXCEPT ![d] = @ - 1] /\ UNCHANGED setting

InHub(v, o) == IF v = "v1beta1" THEN ToHub(kind, o) ELSE o

Hub(s) == InHub(s.version, s.obj)

Store(o) == [version |-> "v1beta2", obj |-> o]

-----------------------------------------------------------------------------
(* Defaulting.                                                             *)

ignoredCloudInitFields == {"write_files", "ntp", "runcmd"}

(* Values that are YAML mappings or lists are laid out anew.               *)
CorrectArbitraryData(data) ==
    [k \in DOMAIN data \ ignoredCloudInitFields |->
        [data[k] EXCEPT !.tidy = @ \/ data[k].shape \in {"mapping", "list"}]]

DefaultRKE2ConfigSpec(config) ==
    [config EXCEPT !.format = IF @ = "" THEN "cloud-config" ELSE @,
                   !.data   = IF @ = Nil THEN Nil ELSE CorrectArbitraryData(@)]

DefaultTimeout == [drain |-> 120, detach |-> 300, deletion |-> 10]

DefaultControlPlane(o) ==
    [o EXCEPT !.spec.config = DefaultRKE2ConfigSpec(@),
              !.spec.machineTemplate.timeouts = [t \in Timeouts |-> IF @[t] = Nil THEN DefaultTimeout[t] ELSE @[t]],
              !.spec.top.replicas = IF @ = Nil THEN 1 ELSE @]

DefaultTemplate(o) == [o EXCEPT !.spec.config = DefaultRKE2ConfigSpec(@)]

DefaultConfig(o) == [o EXCEPT !.spec.config = DefaultRKE2ConfigSpec(@)]

Default(o) ==
    CASE kind = "RKE2ControlPlane"         -> DefaultControlPlane(o)
      [] kind = "RKE2ControlPlaneTemplate" -> DefaultTemplate(o)
      [] kind \in {"RKE2Config", "RKE2ConfigTemplate"} -> DefaultConfig(o)

-----------------------------------------------------------------------------
(* Validation.                                                             *)

ValidateIgnition(config) ==
    config.format = "ignition" =>
        /\ ~(config.butane = "fatal" \/ (config.butane = "warns" /\ config.strict))
        /\ ~config.gzip

ValidateRegistries(config) == ~config.bareRegistry

ValidateRKE2ConfigSpec(config) == ValidateIgnition(config) /\ ValidateRegistries(config)

ValidateCNI(server) == server.multus => server.cni # ""

ValidateRegistrationMethod(top) == top.method = "address" => top.address # NoAddress

(* A taint is a model of its key: allowed by all the rules, or not.        *)
ValidateMachineTaints(taints) ==
    /\ taints # {} => gate
    /\ "reserved" \notin taints

ValidateMachineTemplate(template) ==
    /\ ValidateMachineTaints(template.taints)
    /\ template.infra # ""
    /\ \A t \in Timeouts : template.timeouts[t] # Nil => template.timeouts[t] >= 0

ValidateSpec(top) == top.replicas # Nil /\ top.replicas > 0

ValidateScaling(spec) ==
    LET replicas == spec.top.replicas
        maxSurge == spec.top.maxSurge
    IN  /\ ~spec.server.external => replicas % 2 # 0
        /\ maxSurge # Nil => maxSurge \in {0, 1}
        /\ maxSurge = 0 => replicas >= 3

MethodKept(old, new) == old.top.method # "" => new.top.method = old.top.method

ValidateCreateControlPlane(o) ==
    /\ ValidateRKE2ConfigSpec(o.spec.config)
    /\ ValidateCNI(o.spec.server)
    /\ ValidateRegistrationMethod(o.spec.top)
    /\ ValidateMachineTemplate(o.spec.machineTemplate)
    /\ ValidateSpec(o.spec.top)
    /\ ValidateScaling(o.spec)

ScalingAlways(old, new) == TRUE
ScalingIgnoresDatastore(old, new) ==
    old.top.replicas # new.top.replicas \/ old.top.maxSurge # new.top.maxSurge

ScalingChanged(old, new) ==
    \/ old.top.replicas # new.top.replicas
    \/ old.top.maxSurge # new.top.maxSurge
    \/ old.server.external # new.server.external

ValidateUpdateControlPlane(old, new) ==
    /\ ValidateRKE2ConfigSpec(new.spec.config)
    /\ ValidateCNI(new.spec.server)
    /\ ValidateMachineTemplate(new.spec.machineTemplate)
    /\ ValidateSpec(new.spec.top)
    /\ ScalingChanged(old.spec, new.spec) => ValidateScaling(new.spec)
    /\ MethodKept(old.spec, new.spec)

ValidateCreateTemplate(o) ==
    /\ ValidateRKE2ConfigSpec(o.spec.config)
    /\ ValidateCNI(o.spec.server)
    /\ ValidateRegistrationMethod(o.spec.top)
    /\ ValidateMachineTaints(o.spec.machineTemplate.taints)

ValidateUpdateTemplate(old, new) ==
    /\ ValidateRKE2ConfigSpec(new.spec.config)
    /\ ValidateCNI(new.spec.server)
    /\ ValidateMachineTaints(new.spec.machineTemplate.taints)
    /\ MethodKept(old.spec, new.spec)

ValidateCreateConfig(o) == ValidateRKE2ConfigSpec(o.spec.config)

ValidateUpdateConfig(old, new) == ValidateRKE2ConfigSpec(new.spec.config)

ValidateCreate(o) ==
    CASE kind = "RKE2ControlPlane"         -> ValidateCreateControlPlane(o)
      [] kind = "RKE2ControlPlaneTemplate" -> ValidateCreateTemplate(o)
      [] kind = "RKE2Config"               -> ValidateCreateConfig(o)
      [] kind = "RKE2ConfigTemplate"       -> TRUE

ValidateUpdate(old, new) ==
    CASE kind = "RKE2ControlPlane"         -> ValidateUpdateControlPlane(old, new)
      [] kind = "RKE2ControlPlaneTemplate" -> ValidateUpdateTemplate(old, new)
      [] kind = "RKE2Config"               -> ValidateUpdateConfig(old, new)
      [] kind = "RKE2ConfigTemplate"       -> TRUE

-----------------------------------------------------------------------------
(* The v1beta1 webhooks of the earlier release, which wrote the objects    *)
(* that are still stored in v1beta1.                                       *)

DefaultV1Beta1(o) ==
    LET millis == [t \in Timeouts |-> DefaultTimeout[t] * 1000]
    IN  [o EXCEPT !.spec.config = DefaultRKE2ConfigSpec(@),
                  !.spec.machineTemplate.infra = IF @.name = "" THEN o.spec.deprecated.infra ELSE @,
                  !.spec.machineTemplate.timeouts =
                      [t \in Timeouts |->
                          CASE @[t] # Nil -> @[t]
                            [] t = "drain" /\ o.spec.deprecated.drain # Nil -> o.spec.deprecated.drain
                            [] OTHER -> millis[t]],
                  !.spec.top.replicas = IF @ = Nil THEN 1 ELSE @]

ValidateMachineTemplateV1Beta1(o) ==
    /\ o.spec.machineTemplate.infra.name # "" \/ o.spec.deprecated.infra.name # ""
    /\ \A t \in Timeouts : o.spec.machineTemplate.timeouts[t] # Nil => o.spec.machineTemplate.timeouts[t] >= 0

(* There are no rules for scaling in v1beta1.                              *)
ValidateCreateV1Beta1(o) ==
    /\ ValidateRKE2ConfigSpec(o.spec.config)
    /\ ValidateCNI(o.spec.server)
    /\ ValidateRegistrationMethod(o.spec.top)
    /\ ValidateMachineTemplateV1Beta1(o)
    /\ ValidateSpec(o.spec.top)

(* The object as the earlier release stored it.                            *)
Legacy(s) ==
    CASE s.kind = "RKE2ControlPlane" -> DefaultV1Beta1(s.legacy)
      [] s.kind # "RKE2ControlPlane" -> [s.legacy EXCEPT !.spec.config = DefaultRKE2ConfigSpec(@)]

-----------------------------------------------------------------------------
(* Clients.                                                                *)

Init ==
    \E s \in Scenarios :
        /\ setting = s
        /\ s.legacy # Missing /\ s.kind = "RKE2ControlPlane" => ValidateCreateV1Beta1(Legacy(s))
        /\ stored = IF s.legacy = Missing THEN Missing ELSE [version |-> "v1beta1", obj |-> Legacy(s)]
        /\ view = [c \in Clients |-> Missing]
        /\ gate = TRUE
        /\ served = TRUE
        /\ left = s.left

Convertible(c) ==
    VersionOf(c) = "v1beta1" /\ stored.version = "v1beta2" => ~FromHubFails(kind, stored.obj, served)

InVersionOf(c) ==
    CASE VersionOf(c) = stored.version -> stored.obj
      [] VersionOf(c) = "v1beta2" -> Hub(stored)
      [] OTHER -> FromHub(kind, stored.obj)

Read(c) ==
    /\ stored # Missing
    /\ view[c] = Missing
    /\ Convertible(c)
    /\ view' = [view EXCEPT ![c] = [obj |-> InVersionOf(c), seen |-> stored]]
    /\ UNCHANGED <<setting, stored, gate, served, left>>

UserRead == \E c \in Clients \ {"controller"} : left["edit"] > 0 /\ Read(c)

Create ==
    \E m \in setting.manifests :
        LET o == Default(InHub(VersionOf(m.client), m.obj))
        IN  /\ Happens("create")
            /\ stored = Missing
            /\ stored' = IF ValidateCreate(o) THEN Store(o) ELSE stored
            /\ UNCHANGED <<view, gate, served>>

Apply(o, e) ==
    IF e.field \in Timeouts THEN [o EXCEPT !.spec.machineTemplate.timeouts[e.field] = e.value]
    ELSE [o EXCEPT !.spec[e.group][e.field] = e.value]

(* The hub object a client asks for; a v1beta1 client may have lost the    *)
(* annotation.  The status is never taken from it.                         *)
Requested(c, e, keep) ==
    LET o    == Apply(view[c].obj, e)
        hub  == InHub(VersionOf(c), IF keep \/ VersionOf(c) = "v1beta2" THEN o ELSE [o EXCEPT !.data = Nil])
    IN  IF "status" \in DOMAIN hub THEN [hub EXCEPT !.status = Hub(stored).status] ELSE hub

Update(c, e, keep) ==
    LET new == Default(Requested(c, e, keep))
    IN  /\ Happens("edit")
        /\ view[c] # Missing
        /\ stored' = IF view[c].seen = stored /\ ValidateUpdate(Hub(stored), new) THEN Store(new) ELSE stored
        /\ view' = [view EXCEPT ![c] = Missing]
        /\ UNCHANGED <<gate, served>>

UserUpdate == \E e \in setting.choices, keep \in BOOLEAN : Update(e.client, e, keep)

-----------------------------------------------------------------------------
(* The controller of the object and the storage version migrator.          *)

(* Finalizers and annotations are patched on the object itself.            *)
PatchMetadata ==
    /\ stored # Missing
    /\ LET new == Default(Hub(stored))
       IN  stored' = IF ValidateUpdate(Hub(stored), new) THEN Store(new) ELSE stored
    /\ UNCHANGED <<setting, view, gate, served, left>>

(* The migrator writes the object unchanged: through the status, where no  *)
(* webhook is called, for all kinds but the control plane template.        *)
Migrate ==
    /\ stored # Missing
    /\ IF kind = "RKE2ControlPlaneTemplate" THEN PatchMetadata
       ELSE stored' = Store(Hub(stored)) /\ UNCHANGED <<setting, view, gate, served, left>>

NoHost(top) == top.method \in {"control-plane-endpoint", ""} /\ setting.host = NoAddress

ReadyMachines == {m \in setting.machines : m.ready}

(* The Machines and the workload cluster are as the scenario says.         *)
UpdateControlPlaneStatus(o) ==
    LET ips    == NewRegistrationMethod(o.spec.top, setting.host, ReadyMachines)
        status == [o.status EXCEPT !.initialized = IF setting.serving THEN TRUE ELSE @, !.counters = Cardinality(ReadyMachines)]
    IN  CASE ReadyMachines = {} \/ NoHost(o.spec.top) -> status
          [] ips = {} -> [status EXCEPT !.ips = {}]
          [] OTHER -> [status EXCEPT !.ips = ips, !.initialized = IF ReadyMachines = setting.machines THEN TRUE ELSE @]

(* A mutant: a known secret name is taken for a complete status.           *)
UpdateConfigStatusByName(o) ==
    IF setting.secret # Nil /\ o.status.secret = Nil
    THEN [o.status EXCEPT !.initialized = TRUE, !.secret = setting.secret] ELSE o.status

(* The Machine that owns the config may name its secret already.           *)
UpdateConfigStatus(o) ==
    IF setting.secret # Nil /\ (~Deref(o.status.initialized) \/ o.status.secret = Nil)
    THEN [o.status EXCEPT !.initialized = TRUE, !.secret = setting.secret] ELSE o.status

ComputedStatus(o) ==
    IF kind = "RKE2ControlPlane" THEN UpdateControlPlaneStatus(o) ELSE UpdateConfigStatus(o)

ControllerRead == kind \in {"RKE2ControlPlane", "RKE2Config"} /\ Read("controller")

(* What the reconcile changed of the status it read is patched.            *)
UpdateStatus ==
    LET read == view["controller"].obj
        new  == ComputedStatus(read)
        hub  == Hub(stored)
    IN  /\ view["controller"] # Missing
        /\ stored' = Store([hub EXCEPT !.status =
                               [f \in DOMAIN @ |-> IF new[f] # read.status[f] THEN new[f] ELSE @[f]]])
        /\ view' = [view EXCEPT !["controller"] = Missing]
        /\ UNCHANGED <<setting, gate, served, left>>

-----------------------------------------------------------------------------
(* Faults: the feature gate is turned off, the infrastructure kind is not  *)
(* served for a while.                                                     *)

GateOff == Happens("gate") /\ gate' = FALSE /\ UNCHANGED <<stored, view, served>>

Unserve == Happens("unserve") /\ served' = FALSE /\ UNCHANGED <<stored, view, gate>>

Serve == ~served /\ served' = TRUE /\ UNCHANGED <<setting, stored, view, gate, left>>

Controller == ControllerRead \/ UpdateStatus

Next == UserRead \/ Create \/ UserUpdate \/ PatchMetadata \/ Migrate \/ Controller \/ GateOff \/ Unserve \/ Serve

Spec == Init /\ [][Next]_vars

(* The manager requeues the object until its reconcile has nothing to do.  *)
FairSpec == Spec /\ WF_vars(Controller)

-----------------------------------------------------------------------------
(* Properties.                                                             *)

(* Stored objects are complete.  An object written by the webhooks has     *)
(* every default: rollouts and drains never meet an unset timeout.         *)
TypeOK ==
    /\ gate \in BOOLEAN /\ served \in BOOLEAN
    /\ stored # Missing =>
        /\ stored.version \in {"v1beta1", "v1beta2"}
        /\ Hub(stored).spec.config.format \in {"cloud-config", "ignition"}
        /\ kind = "RKE2ControlPlane" =>
            /\ Hub(stored).spec.top.replicas \in Nat \ {0}
            /\ \A t \in Timeouts : Hub(stored).spec.machineTemplate.timeouts[t] \in Nat

(* A write of client e.client that changes field e.field and no other,     *)
(* those in lost apart.                                                    *)
EditKeeps(e, lost) ==
    stored' # stored /\ view[e.client] # Missing /\ view'[e.client] = Missing /\ Update(e.client, e, TRUE) =>
        \A g \in DOMAIN Hub(stored).spec : \A f \in DOMAIN Hub(stored).spec[g] :
            \/ f = e.field \/ (f = "timeouts" /\ e.field \in Timeouts) \/ f \in lost
            \/ Hub(stored').spec[g][f] = Hub(stored).spec[g][f]

(* An edit through either version changes the edited field and no other,   *)
(* whatever was edited and migrated between the read and the write, as     *)
(* long as a v1beta1 client keeps the annotation; with one exception, the  *)
(* infrastructure reference of a control plane template, which its         *)
(* conversion drops for a v1beta1 client (HubDataPreserved).               *)
EditKeepsTheRest ==
    [][\A e \in setting.choices :
        EditKeeps(e, IF kind = "RKE2ControlPlaneTemplate" /\ VersionOf(e.client) = "v1beta1" THEN {"infra"} ELSE {})]_vars

(* The hub data of every kind is preserved when a v1beta1 client writes    *)
(* back what it has read ("Preserve Hub data on down-conversion", in       *)
(* RKE2ControlPlaneTemplate.ConvertTo and ConvertFrom).                    *)
HubDataPreserved == [][\A e \in setting.choices : EditKeeps(e, {})]_vars

ObeysScaling(spec) ==
    /\ spec.server.external \/ spec.top.replicas \in {1, 3, 5, 7}
    /\ spec.top.maxSurge \in {Nil, 0, 1}
    /\ ~(spec.top.maxSurge = 0 /\ spec.top.replicas \in {1, 2})

(* Embedded etcd keeps an odd number of members: no sequence of accepted   *)
(* writes leads from a control plane that obeys the scaling rules to one   *)
(* that does not, although ValidateUpdate skips the rules when it sees no  *)
(* relevant change.                                                        *)
ScalingRulesKept ==
    [][kind = "RKE2ControlPlane" /\ stored # Missing /\ ObeysScaling(Hub(stored).spec) => ObeysScaling(Hub(stored').spec)]_vars

(* Every stored object can still be patched by its controller, also one    *)
(* that an earlier release accepted and the rules of today refuse.  (With  *)
(* the feature gate turned off, an object with taints cannot.)             *)
PatchesAccepted ==
    stored # Missing /\ gate => ValidateUpdate(Hub(stored), Default(Hub(stored)))

(* Whatever the clients do and whatever the conversion of a legacy object  *)
(* lost, the status in the end says initialized and names the addresses of *)
(* the registration method in the spec; a config gets back its flag.       *)
StatusRecovers ==
    <>[](stored # Missing =>
            CASE kind = "RKE2ControlPlane" ->
                    /\ Hub(stored).status.initialized = TRUE
                    /\ Hub(stored).status.ips = NewRegistrationMethod(Hub(stored).spec.top, setting.host, ReadyMachines)
              [] kind = "RKE2Config" -> Hub(stored).status.initialized = TRUE
              [] OTHER -> TRUE)

(* A node is never told to join at an empty address                        *)
(* (registrationMethodAddress).                                            *)
JoinAddressSupplied ==
    stored # Missing /\ kind = "RKE2ControlPlane" => NoAddress \notin Hub(stored).status.ips

(* Converting a stored v1beta1 object keeps its initialized flag           *)
(* (RKE2ControlPlane.ConvertTo).                                           *)
InitializedKept ==
    stored # Missing /\ stored.version = "v1beta1" /\ "status" \in DOMAIN stored.obj =>
        (stored.obj.status.initialized => Hub(stored).status.initialized = TRUE)
=============================================================================
