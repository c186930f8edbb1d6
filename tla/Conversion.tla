------------------------------ MODULE Conversion ------------------------------
(***************************************************************************)
(* The two versions of the API objects and the conversions between them.   *)
(*                                                                         *)
(* v1beta2 is the hub: webhooks and controllers see only v1beta2 and it is *)
(* the version in which objects are stored.  A v1beta1 object carries, in  *)
(* an annotation, the hub object it was made from (data below), so that    *)
(* what v1beta1 cannot express survives the way back.                      *)
(*                                                                         *)
(* A spec is a record of groups.  The groups config and server have the    *)
(* same fields in both versions and are copied field by field.  Timeouts   *)
(* are milliseconds in v1beta1 and seconds in v1beta2.                     *)
(***************************************************************************)
EXTENDS Integers

CONSTANTS
    Nil,            \* an unset pointer, an absent annotation
    ServedVersion   \* the version under which the infrastructure kind is served

Timeouts == {"drain", "detach", "deletion"}

(* A reference to an infrastructure template; the empty name is no ref.    *)
ObjectReference(version, name) == [version |-> version, name |-> name]

NoReference == ObjectReference("", "")

ConvertToSeconds(d) == IF d = Nil THEN Nil ELSE d \div 1000

ConvertFromSeconds(s) == IF s = Nil THEN Nil ELSE s * 1000

(* true and false are told apart from unset only with the restored value.  *)
BoolToPointer(b, restored) ==
    IF b THEN TRUE ELSE IF restored = FALSE THEN FALSE ELSE Nil

Deref(p) == IF p = Nil THEN FALSE ELSE p

-----------------------------------------------------------------------------
(* RKE2ConfigSpec and RKE2ServerConfig: every field is copied.             *)

ConfigFields == {"format", "data", "butane", "strict", "gzip", "bareRegistry"}

ConfigSpecToHub(in) == [f \in ConfigFields |-> in[f]]

ConfigSpecFromHub(in) == [f \in ConfigFields |-> in[f]]

ServerFields == {"external", "multus", "cni"}

ServerConfigToHub(in) == [f \in ServerFields |-> in[f]]

ServerConfigFromHub(in) == [f \in ServerFields |-> in[f]]

-----------------------------------------------------------------------------
(* RKE2ControlPlaneMachineTemplate: taints exist in the hub only.          *)

ConvertToContractVersionedObjectReference(ref) == ref.name

ConvertToObjectReference(name) == ObjectReference(ServedVersion, name)

MachineTemplateToHub(in) ==
    [infra    |-> ConvertToContractVersionedObjectReference(in.infra),
     timeouts |-> [t \in Timeouts |-> ConvertToSeconds(in.timeouts[t])],
     taints   |-> {}]

MachineTemplateFromHub(in) ==
    [infra    |-> NoReference,
     timeouts |-> [t \in Timeouts |-> ConvertFromSeconds(in.timeouts[t])]]

-----------------------------------------------------------------------------
(* RKE2ControlPlaneSpec: the deprecated fields of v1beta1 have no peer.    *)

TopFields == {"replicas", "maxSurge", "method", "address"}

ControlPlaneSpecToHub(in) ==
    [config          |-> ConfigSpecToHub(in.config),
     top             |-> [f \in TopFields |-> in.top[f]],
     machineTemplate |-> MachineTemplateToHub(in.machineTemplate),
     server          |-> ServerConfigToHub(in.server)]

ControlPlaneSpecFromHub(in) ==
    [config          |-> ConfigSpecFromHub(in.config),
     top             |-> [f \in TopFields |-> in.top[f]],
     machineTemplate |-> MachineTemplateFromHub(in.machineTemplate),
     server          |-> ServerConfigFromHub(in.server),
     deprecated      |-> [infra |-> NoReference, drain |-> Nil]]

(* A template has no replicas in the hub.                                  *)
TemplateSpecToHub(in) ==
    [ControlPlaneSpecToHub(in) EXCEPT !.top.replicas = Nil]

TemplateSpecFromHub(in) ==
    [ControlPlaneSpecFromHub(in) EXCEPT !.top.replicas = Nil]

-----------------------------------------------------------------------------
(* Status.  Conditions and counters of v1beta2 are kept apart in v1beta1;  *)
(* the old conditions and counters of v1beta1 are dropped.                 *)

ControlPlaneStatusToHub(in) ==
    [initialized |-> Nil, counters |-> in.v1beta2, ips |-> in.ips]

ControlPlaneStatusFromHub(in) ==
    [initialized |-> Deref(in.initialized), ready |-> FALSE, counters |-> 0,
     v1beta2 |-> in.counters, ips |-> in.ips]

ConfigStatusToHub(in) ==
    [initialized |-> Nil, counters |-> in.v1beta2, secret |-> in.secret]

ConfigStatusFromHub(in) ==
    [initialized |-> Deref(in.initialized), v1beta2 |-> in.counters, secret |-> in.secret]

-----------------------------------------------------------------------------
(* The objects.                                                            *)

ConvertControlPlaneRaw(src) ==
    [spec |-> ControlPlaneSpecToHub(src.spec), status |-> ControlPlaneStatusToHub(src.status)]

(* A mutant: what only the hub knows is not restored.                      *)
ControlPlaneToHubForgets(src) == ConvertControlPlaneRaw(src)

ControlPlaneToHub(src) ==
    LET dst == ConvertControlPlaneRaw(src)
    IN  IF src.data = Nil THEN dst
        ELSE [dst EXCEPT !.spec.machineTemplate.taints = src.data.spec.machineTemplate.taints,
                         !.status.initialized = BoolToPointer(src.status.initialized, src.data.status.initialized)]

ControlPlaneFromHub(src) ==
    LET infra == src.spec.machineTemplate.infra
        dst   == [spec |-> ControlPlaneSpecFromHub(src.spec), status |-> ControlPlaneStatusFromHub(src.status),
                  data |-> src]
    IN  IF infra = "" THEN dst
        ELSE [dst EXCEPT !.spec.machineTemplate.infra = ConvertToObjectReference(infra)]

TemplateToHub(src) ==
    LET dst == [spec |-> TemplateSpecToHub(src.spec)]
    IN  IF src.data = Nil THEN dst
        ELSE [dst EXCEPT !.spec.machineTemplate.taints = src.data.spec.machineTemplate.taints]

TemplateFromHub(src) == [spec |-> TemplateSpecFromHub(src.spec), data |-> src]

ConfigToHub(src) ==
    LET dst == [spec |-> [config |-> ConfigSpecToHub(src.spec.config)], status |-> ConfigStatusToHub(src.status)]
    IN  IF src.data = Nil THEN dst
        ELSE [dst EXCEPT !.status.initialized = BoolToPointer(src.status.initialized, src.data.status.initialized)]

ConfigFromHub(src) ==
    [spec |-> [config |-> ConfigSpecFromHub(src.spec.config)], status |-> ConfigStatusFromHub(src.status), data |-> src]

ConfigTemplateToHub(src) == [spec |-> [config |-> ConfigSpecToHub(src.spec.config)]]

ConfigTemplateFromHub(src) == [spec |-> [config |-> ConfigSpecFromHub(src.spec.config)], data |-> src]

ToHub(kind, src) ==
    CASE kind = "RKE2ControlPlane"         -> ControlPlaneToHub(src)
      [] kind = "RKE2ControlPlaneTemplate" -> TemplateToHub(src)
      [] kind = "RKE2Config"               -> ConfigToHub(src)
      [] kind = "RKE2ConfigTemplate"       -> ConfigTemplateToHub(src)

FromHub(kind, src) ==
    CASE kind = "RKE2ControlPlane"         -> ControlPlaneFromHub(src)
      [] kind = "RKE2ControlPlaneTemplate" -> TemplateFromHub(src)
      [] kind = "RKE2Config"               -> ConfigFromHub(src)
      [] kind = "RKE2ConfigTemplate"       -> ConfigTemplateFromHub(src)

(* The apiVersion of an infrastructure reference comes from the RESTMapper *)
(* and fails when the kind is not served.                                  *)
FromHubFails(kind, src, served) ==
    kind = "RKE2ControlPlane" /\ src.spec.machineTemplate.infra # "" /\ ~served
=============================================================================
