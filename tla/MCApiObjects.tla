---------------------------- MODULE MCApiObjects ----------------------------
EXTENDS ApiObjects

Calm == [d \in Disturbances |-> 0]

Address(type, a) == [type |-> type, address |-> a]

(* One Machine has both kinds of address, one has only an external one and *)
(* one is not ready.                                                       *)
MCMachines ==
    {[addresses |-> <<Address("InternalIP", "10.0.0.1"), Address("ExternalIP", "1.1.1.1")>>, ready |-> TRUE],
     [addresses |-> <<Address("InternalIP", ""), Address("ExternalIP", "2.2.2.2")>>, ready |-> TRUE],
     [addresses |-> <<Address("InternalIP", "10.0.0.3")>>, ready |-> FALSE]}

Value(shape) == [shape |-> shape, tidy |-> FALSE]

PlainConfig ==
    [format |-> "", data |-> Nil, butane |-> "parses", strict |-> FALSE, gzip |-> FALSE, bareRegistry |-> FALSE]

UserData == [k \in {"users", "runcmd", "timezone"} |->
                Value(CASE k = "users" -> "list" [] k = "runcmd" -> "list" [] OTHER -> "scalar")]

NoTimeouts == [t \in Timeouts |-> Nil]

HubPlane(replicas, maxSurge, external, taints) ==
    [spec |-> [config |-> PlainConfig,
               top |-> [replicas |-> replicas, maxSurge |-> maxSurge, method |-> "", address |-> ""],
               machineTemplate |-> [infra |-> "infra", timeouts |-> [NoTimeouts EXCEPT !["drain"] = 60], taints |-> taints],
               server |-> [external |-> external, multus |-> FALSE, cni |-> "calico"]],
     status |-> [initialized |-> Nil, counters |-> Nil, ips |-> {}]]

(* A v1beta1 control plane of the earlier release, with two replicas.      *)
OldPlane ==
    [spec |-> [config |-> PlainConfig,
               top |-> [replicas |-> 2, maxSurge |-> 0, method |-> "internal-first", address |-> ""],
               machineTemplate |-> [infra |-> NoReference, timeouts |-> [NoTimeouts EXCEPT !["detach"] = 1500]],
               server |-> [external |-> FALSE, multus |-> TRUE, cni |-> "calico"],
               deprecated |-> [infra |-> ObjectReference("v1alpha1", "infra"), drain |-> 90000]],
     status |-> [initialized |-> TRUE, ready |-> TRUE, counters |-> 2, v1beta2 |-> Nil, ips |-> {"10.0.0.1"}],
     data |-> Nil]

HubTemplate ==
    [spec |-> [HubPlane(Nil, Nil, FALSE, {"taint"}).spec EXCEPT !.config.data = UserData, !.top.method = "address",
                                                                 !.top.address = "vip"]]

OldConfig ==
    [spec |-> [config |-> [PlainConfig EXCEPT !.data = UserData]],
     status |-> [initialized |-> TRUE, v1beta2 |-> Nil, secret |-> "secret"], data |-> Nil]

HubConfig ==
    [spec |-> [config |-> [PlainConfig EXCEPT !.format = "ignition", !.butane = "warns"]],
     status |-> [initialized |-> Nil, counters |-> Nil, secret |-> Nil]]

Edit(c, group, field, value) == [client |-> c, group |-> group, field |-> field, value |-> value]

Both(group, field, values) ==
    {Edit(c, group, field, v) : c \in {"user", "tool"}, v \in values}

ScalingEdits ==
    Both("top", "replicas", {0, 1, 2, 3}) \cup Both("top", "maxSurge", {Nil, 0, 2}) \cup Both("server", "external", BOOLEAN)

FieldEdits ==
    Both("top", "method", {"internal-only-ips", "external-only-ips"}) \cup Both("server", "cni", {""})
        \cup {Edit("user", "machineTemplate", "drain", v) : v \in {-1, 30}}
        \cup {Edit("tool", "machineTemplate", "drain", v) : v \in {Nil, 45000}}
        \cup {Edit("user", "machineTemplate", "taints", v) : v \in {{}, {"reserved"}, {"taint", "other"}}}
        \cup {Edit("tool", "machineTemplate", "infra", v) : v \in {NoReference, ObjectReference("v1", "other")}}

AddressEdits == Both("top", "method", {"address", "control-plane-endpoint", "internal-first"}) \cup Both("top", "address", {"", "vip"})

ConfigEdits ==
    Both("config", "format", {"", "ignition"}) \cup Both("config", "strict", {TRUE}) \cup Both("config", "gzip", BOOLEAN)
        \cup Both("config", "bareRegistry", {TRUE}) \cup Both("config", "data", {Nil, UserData}) \cup Both("config", "butane", {"fatal"})

Scenario(k, old, new, edits, n, faults) ==
    [kind |-> k, legacy |-> old, manifests |-> {[client |-> "user", obj |-> o] : o \in new}, choices |-> edits,
     machines |-> MCMachines, host |-> "host", serving |-> TRUE, secret |-> "secret",
     left |-> [d \in Disturbances |->
                  CASE d = "edit" -> n [] d = "create" -> (IF new = {} THEN 0 ELSE 1) [] OTHER -> (IF d \in faults THEN 1 ELSE 0)]]

NoEndpoint(s) == [s EXCEPT !.host = ""]

NewPlanes == {HubPlane(Nil, Nil, FALSE, {}), HubPlane(3, 0, FALSE, {}), HubPlane(2, 1, TRUE, {}), HubPlane(2, Nil, FALSE, {})}

MCScenarios ==
    {Scenario("RKE2ControlPlane", Missing, NewPlanes, ScalingEdits, 3, {}),
     Scenario("RKE2ControlPlane", OldPlane, {}, ScalingEdits, 2, {}),
     NoEndpoint(Scenario("RKE2ControlPlane", Missing, {HubPlane(1, Nil, FALSE, {"taint"})}, FieldEdits, 2, {"gate", "unserve"})),
     Scenario("RKE2ControlPlane", OldPlane, {}, FieldEdits, 2, {"unserve"}),
     Scenario("RKE2ControlPlaneTemplate", Missing, {HubTemplate}, FieldEdits, 2, {}),
     Scenario("RKE2Config", OldConfig, {}, ConfigEdits, 2, {}),
     Scenario("RKE2Config", Missing, {HubConfig}, ConfigEdits, 2, {}),
     Scenario("RKE2ConfigTemplate", Missing, {[spec |-> HubConfig.spec]}, ConfigEdits, 2, {})}

(* For the violations: an edit of a control plane template; an update that *)
(* clears the address; an upgrade.                                         *)
MCTemplate == {Scenario("RKE2ControlPlaneTemplate", Missing, {HubTemplate}, FieldEdits, 1, {})}
MCAddress == {Scenario("RKE2ControlPlane", Missing, {HubPlane(1, Nil, FALSE, {})}, AddressEdits, 3, {})}
MCUpgrade == {Scenario("RKE2ControlPlane", OldPlane, {}, {}, 0, {}), Scenario("RKE2Config", OldConfig, {}, {}, 0, {})}
=============================================================================
