---------------------------- MODULE Registration ----------------------------
(***************************************************************************)
(* The addresses under which new nodes join: GetRegistrationAddresses of   *)
(* each registration method.  The Machines are the entries of a Go map, so *)
(* the addresses come in any order and are a set here; a node joins        *)
(* through one of them.  The empty address is the empty string of the      *)
(* code.                                                                   *)
(***************************************************************************)
EXTENDS Sequences, SequencesExt

NoAddress == ""

(* The address of the first entry of one of the types that is not empty.   *)
FirstOf(machine, types) ==
    LET fits == SelectSeq(machine.addresses, LAMBDA a : a.type \in types /\ a.address # NoAddress)
    IN  IF fits = <<>> THEN NoAddress ELSE Head(fits).address

FilterInternalFirst(machine) == FirstOf(machine, {"InternalIP", "ExternalIP"})

FilterInternalOnly(machine) == FirstOf(machine, {"InternalIP"})

FilterExternalOnly(machine) == FirstOf(machine, {"ExternalIP"})

(* The addresses a filter found; a Machine without one adds none.          *)
RegistrationMethodWithFilter(filtered) == filtered \ {NoAddress}

RegistrationMethodAddress(spec) == {spec.address}

(* Without a host the code returns an error: no address is published.      *)
RegistrationMethodControlPlaneEndpoint(host) == {host} \ {NoAddress}

NewRegistrationMethod(spec, host, machines) ==
    CASE spec.method = "internal-first"    -> RegistrationMethodWithFilter({FilterInternalFirst(m) : m \in machines})
      [] spec.method = "internal-only-ips" -> RegistrationMethodWithFilter({FilterInternalOnly(m) : m \in machines})
      [] spec.method = "external-only-ips" -> RegistrationMethodWithFilter({FilterExternalOnly(m) : m \in machines})
      [] spec.method = "address"           -> RegistrationMethodAddress(spec)
      [] spec.method \in {"control-plane-endpoint", ""} -> RegistrationMethodControlPlaneEndpoint(host)
=============================================================================
