----------------------------- MODULE MCNodeData -----------------------------
(* Small instances of NodeData.                                            *)
EXTENDS NodeData

Plain == [role |-> "worker", format |-> "cloud-config", refs |-> {}, registries |-> <<>>, files |-> <<>>,
          cis |-> "none", airGapped |-> FALSE, checksum |-> FALSE, ntp |-> FALSE, gzip |-> FALSE,
          extra |-> "none", strict |-> FALSE, sections |-> {}]

Both == [tls |-> "secret", auth |-> TRUE]
OnlyTLS == [tls |-> "secret", auth |-> FALSE]
OnlyAuth == [tls |-> "none", auth |-> TRUE]
Insecure == [tls |-> "insecure", auth |-> FALSE]

FileFrom(path, f, key) == [path |-> path, ref |-> <<"file", f>>, key |-> key]

MCNodes ==
    { [Plain EXCEPT !.role = "init", !.refs = {"audit", "datastore", "cloud"}, !.gzip = TRUE],
      [Plain EXCEPT !.role = "init", !.refs = {"s3", "s3ca", "encryption"}, !.cis = "compliant",
                    !.airGapped = TRUE, !.checksum = TRUE],
      [Plain EXCEPT !.role = "join", !.refs = {"cloud", "manifests", "datastore"}, !.ntp = TRUE,
                    !.extra = "config", !.sections = {"runcmd", "write_files", "users"}],
      [Plain EXCEPT !.refs = {"cloud", "image", "resolv"}, !.cis = "other"],
      [Plain EXCEPT !.refs = {"cloud", "image"}, !.cis = "compliant", !.extra = "data", !.sections = {"runcmd", "users"}],
      [Plain EXCEPT !.refs = {"resolv"}, !.extra = "data", !.sections = {"write_files"}],
      [Plain EXCEPT !.registries = ("a" :> OnlyTLS) @@ ("b" :> OnlyTLS), !.extra = "invalid"],
      [Plain EXCEPT !.registries = ("a" :> Both) @@ ("b" :> OnlyTLS)],
      [Plain EXCEPT !.registries = ("a" :> Both) @@ ("b" :> Insecure)],
      [Plain EXCEPT !.registries = ("a" :> OnlyAuth),
                    !.files = <<FileFrom("tls.crt", "f", "k"), FileFrom("config.yaml", "f", "inline")>>],
      [Plain EXCEPT !.files = <<FileFrom("my.crt", "f", "k"), FileFrom("my.key", "f", "l")>>],
      [Plain EXCEPT !.role = "init", !.format = "ignition", !.refs = {"audit", "resolv"}, !.gzip = TRUE,
                    !.cis = "compliant", !.extra = "config", !.sections = {"motd"}, !.checksum = TRUE],
      [Plain EXCEPT !.role = "join", !.format = "ignition", !.refs = {"cloud"}],
      [Plain EXCEPT !.format = "ignition", !.refs = {"cloud"}, !.registries = ("a" :> OnlyTLS),
                    !.extra = "warns", !.strict = TRUE],
      [Plain EXCEPT !.format = "ignition", !.registries = ("a" :> OnlyTLS) @@ ("b" :> OnlyTLS)],
      [Plain EXCEPT !.format = "ignition", !.registries = ("a" :> OnlyTLS),
                    !.files = <<FileFrom("config.yaml", "f", "k")>>],
      [Plain EXCEPT !.format = "ignition", !.refs = {"cloud"}, !.extra = "warns"] }

(* Two registries, each with a TLS secret.                                 *)
MCTwoRegistries == {[Plain EXCEPT !.registries = ("a" :> OnlyTLS) @@ ("b" :> OnlyTLS)]}

(* The sets of keys of an object: all it may have, and fewer.              *)
MCEntriesOf(ref) ==
    CASE ref[1] = "audit" -> {{"audit-policy.yaml"}, {}}
      [] ref[1] = "cloud" -> {{"cloud-config"}, {}}
      [] ref[1] = "s3" -> {{"aws_access_key_id", "aws_secret_access_key"}, {"aws_access_key_id"}}
      [] ref[1] = "s3ca" -> {{"ca.pem"}, {}}
      [] ref[1] = "encryption" -> {{"encryptionKey"}, {}}
      [] ref[1] = "datastore" -> {{"endpoint"}, {"endpoint", "ca.pem", "cert.pem", "key.pem"},
                                  {"endpoint", "cert.pem"}, {"endpoint", "key.pem"}}
      [] ref[1] = "image" -> {{"credential-config.yaml", "credential-provider-binaries"}, {"credential-config.yaml"}}
      [] ref[1] = "resolv" -> {{"resolv.conf"}, {}}
      [] ref[1] = "manifests" -> {{"cni.yaml", "csi.yaml"}, {}}
      [] ref[1] = "tls" -> {{"tls.crt", "tls.key", "ca.crt"}, {"ca.crt"}}
      [] ref[1] = "auth" -> {{"username", "password"}, {"identity-token"}, {"username"}}
      [] ref[1] = "file" -> {{"k", "l"}, {"k"}}
=============================================================================
