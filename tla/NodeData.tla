------------------------------ MODULE NodeData ------------------------------
(***************************************************************************)
(* How the bootstrap controller puts the data of one node together.        *)
(*                                                                         *)
(* The RKE2ControlPlane and the RKE2Config refer to Secrets and ConfigMaps *)
(* of the user.  One reconcile reads them one after the other, each with a *)
(* request of its own, while the user creates, edits and deletes them; it  *)
(* collects the files of the node and what config.yaml and registries.yaml *)
(* say about them, and renders cloud-init or Ignition user data.  The      *)
(* first error ends the reconcile, and the next one starts again.          *)
(*                                                                         *)
(* A reference is <<what it is for, which one>>.  The value of an entry is *)
(* the object it came from, its key and the object's revision.             *)
(***************************************************************************)
EXTENDS Naturals, SequencesExt

CONSTANTS
    Nodes,          \* what the API objects say of the nodes
    EntriesOf(_),   \* the sets of keys the object of a reference may have
    MaxEdits        \* how often the user changes an object

VARIABLES
    node,       \* the node, one of Nodes
    object,     \* what the references refer to
    edits,      \* how often the user has changed an object
    todo,       \* what the reconcile has still to do
    work,       \* what it has collected
    data        \* the data in the secret

vars == <<node, object, edits, todo, work, data>>

NoObject == [rev |-> 0, keys |-> {}]

NoData == [writes |-> <<>>]

Value(ref, key, rev) == [ref |-> ref, key |-> key, rev |-> rev]

Generated(key) == Value(<<"generated", "">>, key, 0)

File(path, value) == [path |-> path, value |-> value]

Server == node.role # "worker"

-----------------------------------------------------------------------------
(* What a reconcile reads.  A reading is a step of kind "config" for a     *)
(* reference in the server or agent configuration: the entries it needs,   *)
(* and the path each of its entries is written to.                         *)

Reading(for, needs, paths) ==
    [step |-> "config", ref |-> <<for, "">>, needs |-> needs, paths |-> paths]

AuditPolicy == Reading("audit", {"audit-policy.yaml"}, "audit-policy.yaml" :> "audit-policy.yaml")

CloudProvider == Reading("cloud", {"cloud-config"}, "cloud-config" :> "cloud-provider-config")

S3Credentials == Reading("s3", {"aws_access_key_id", "aws_secret_access_key"}, <<>>)

S3EndpointCA == Reading("s3ca", {"ca.pem"}, "ca.pem" :> "etcd-s3-ca.crt")

Encryption == Reading("encryption", {"encryptionKey"}, "encryptionKey" :> "encryption-config.json")

DatastoreNeedsCA ==
    Reading("datastore", {"endpoint", "ca.pem"},
            ("ca.pem" :> "datastore-ca.crt") @@ ("cert.pem" :> "datastore-cert.crt") @@ ("key.pem" :> "datastore-key.crt"))

Datastore ==
    Reading("datastore", {"endpoint"},
            ("ca.pem" :> "datastore-ca.crt") @@ ("cert.pem" :> "datastore-cert.crt") @@ ("key.pem" :> "datastore-key.crt"))

ImageCredentialProvider ==
    Reading("image", {"credential-config.yaml", "credential-provider-binaries"},
            "credential-config.yaml" :> "credential-config.yaml")

ResolvConf == Reading("resolv", {"resolv.conf"}, "resolv.conf" :> "resolv.conf")

Referenced(readings) == SelectSeq(readings, LAMBDA r : r.ref[1] \in node.refs)

ServerReadings ==
    Referenced(<<AuditPolicy, CloudProvider, S3Credentials, S3EndpointCA, Encryption, Datastore>>)

AgentReadings == <<[step |-> "agent"]>> \o Referenced(<<CloudProvider, ImageCredentialProvider, ResolvConf>>)

GenerateInitControlPlaneConfig == ServerReadings \o AgentReadings

GenerateJoinControlPlaneConfig == ServerReadings \o AgentReadings

GenerateWorkerConfig == AgentReadings

ConfigReadings ==
    CASE node.role = "init" -> GenerateInitControlPlaneConfig
      [] node.role = "join" -> GenerateJoinControlPlaneConfig
      [] node.role = "worker" -> GenerateWorkerConfig

(* The registries, in any order: the secret with the TLS entries, the one  *)
(* with the credentials, and the registry's configuration.  Any TLS        *)
(* setting has the secret read, also one that names none ("insecure").     *)
RegistryReadings(order) ==
    FlattenSeq([i \in DOMAIN order |->
        LET r == order[i] IN
        <<[step |-> "registry"]>>
        \o (IF node.registries[r].tls # "none" THEN <<[step |-> "tls", ref |-> <<"tls", r>>]>> ELSE <<>>)
        \o (IF node.registries[r].auth THEN <<[step |-> "auth", ref |-> <<"auth", r>>]>> ELSE <<>>)
        \o <<[step |-> "registered", name |-> r]>>])

FileReadings == [i \in DOMAIN node.files |-> [step |-> "file", file |-> node.files[i]]]

ManifestReadings ==
    IF Server /\ "manifests" \in node.refs THEN <<[step |-> "manifests", ref |-> <<"manifests", "">>]>> ELSE <<>>

-----------------------------------------------------------------------------
(* The reconcile.  The server part and the agent part of config.yaml, its  *)
(* values, the files, and the registries with theirs.                      *)

NoEntry == [named |-> {}, holds |-> {}]

NoWork == [server |-> {}, agent |-> {}, holds |-> {}, files |-> <<>>,
           entry |-> NoEntry, registries |-> <<>>, registryFiles |-> <<>>, own |-> <<>>, manifests |-> <<>>]

Begin ==
    /\ todo = <<>> /\ data = NoData
    /\ \E order \in SetToSeqs(DOMAIN node.registries) :
        todo' = ConfigReadings \o RegistryReadings(order) \o FileReadings \o ManifestReadings \o <<[step |-> "render"]>>
    /\ work' = NoWork
    /\ UNCHANGED <<node, object, edits, data>>

Doing(step) == todo # <<>> /\ Head(todo).step = step

Return == todo' = <<>> /\ work' = NoWork /\ UNCHANGED data

Continue == todo' = Tail(todo) /\ UNCHANGED data

(* The datastore's key goes with its certificate; the other entries that   *)
(* have a path are written when they are there.                            *)
Taken(reading, keys) ==
    {k \in keys : /\ k \in DOMAIN reading.paths
                  /\ reading.ref[1] = "datastore" /\ k = "key.pem" => "cert.pem" \in keys}

Complete(reading, keys) ==
    /\ reading.needs \subseteq keys
    /\ reading.ref[1] = "datastore" /\ "cert.pem" \in keys => "key.pem" \in keys

FilesOf(ref, paths, keys, rev) ==
    LET files == [k \in keys |-> File(paths[k], Value(ref, k, rev))]
    IN  SetToSeq({files[k] : k \in keys})

InServerConfig == \E i \in DOMAIN todo : todo[i].step = "agent"

(* A reference of newRKE2ServerConfig or newRKE2AgentConfig.  The cloud    *)
(* provider's configuration is in the agent part also when the server's    *)
(* function sets it.                                                       *)
ReadReference ==
    /\ Doing("config")
    /\ LET r == Head(todo)
           o == object[r.ref]
           files == FilesOf(r.ref, r.paths, Taken(r, o.keys), o.rev)
           part == IF InServerConfig /\ r.ref[1] # "cloud" THEN "server" ELSE "agent"
       IN  IF Complete(r, o.keys)
           THEN /\ Continue
                /\ work' = [work EXCEPT ![part] = @ \cup ToSet(files), !.files = @ \o files,
                                        !.holds = @ \cup {Value(r.ref, k, o.rev) : k \in r.needs \ DOMAIN r.paths}]
           ELSE Return
    /\ UNCHANGED <<node, object, edits>>

cisScript == "rke2-cis-script.sh"

(* newRKE2AgentConfig starts: its result replaces the agent part.          *)
NewAgentConfig ==
    /\ Doing("agent")
    /\ IF node.cis # "none" /\ node.cis # "compliant" THEN Return
       ELSE /\ Continue
            /\ work' = [work EXCEPT !.agent = {},
                            !.files = IF node.cis = "none" THEN @ ELSE Append(@, File(cisScript, Generated(cisScript)))]
    /\ UNCHANGED <<node, object, edits>>

-----------------------------------------------------------------------------
(* GenerateRegistries.  Every registry's TLS entries go to the same paths; *)
(* the configurations are a new map for every registry.                    *)

NewRegistry ==
    /\ Doing("registry") /\ Continue
    /\ work' = [work EXCEPT !.entry = NoEntry]
    /\ UNCHANGED <<node, object, edits>>

TLSEntries == <<"tls.crt", "tls.key", "ca.crt">>

ReadRegistryTLS ==
    /\ Doing("tls")
    /\ LET ref == Head(todo).ref
           o == IF ref \in DOMAIN object THEN object[ref] ELSE NoObject
           present == SelectSeq(TLSEntries, LAMBDA k : k \in o.keys)
           files == [i \in DOMAIN present |-> File(present[i], Value(ref, present[i], o.rev))]
       IN  IF o = NoObject THEN Return
           ELSE Continue /\ work' = [work EXCEPT !.entry.named = ToSet(files), !.registryFiles = @ \o files]
    /\ UNCHANGED <<node, object, edits>>

IsRegistryStep(s) == s.step \in {"registry", "tls", "auth", "registered"}

(* Credentials without the entries they need end GenerateRegistries with   *)
(* no registry, no file, and no error.                                     *)
ReadRegistryAuth ==
    /\ Doing("auth")
    /\ LET ref == Head(todo).ref
           o == object[ref]
           entries == UNION {e \in {{"username", "password"}, {"identity-token"}} : e \subseteq o.keys}
       IN  IF o = NoObject THEN Return
           ELSE IF entries # {}
           THEN Continue /\ work' = [work EXCEPT !.entry.holds = {Value(ref, k, o.rev) : k \in entries}]
           ELSE /\ todo' = SelectSeq(todo, LAMBDA s : ~IsRegistryStep(s))
                /\ work' = [work EXCEPT !.registries = <<>>, !.registryFiles = <<>>]
                /\ UNCHANGED data
    /\ UNCHANGED <<node, object, edits>>

RegisteredBeside ==
    /\ Doing("registered") /\ Continue
    /\ work' = [work EXCEPT !.registries = (Head(todo).name :> work.entry) @@ @]
    /\ UNCHANGED <<node, object, edits>>

Registered ==
    /\ Doing("registered") /\ Continue
    /\ work' = [work EXCEPT !.registries = Head(todo).name :> work.entry]
    /\ UNCHANGED <<node, object, edits>>

-----------------------------------------------------------------------------
(* The files of the RKE2Config and the manifests.                          *)

ReadFile ==
    /\ Doing("file")
    /\ LET f == Head(todo).file IN
       IF f.key = "inline"
       THEN Continue /\ work' = [work EXCEPT !.own = Append(@, File(f.path, Generated("inline")))]
       ELSE IF f.key \in object[f.ref].keys
       THEN Continue /\ work' = [work EXCEPT !.own = Append(@, File(f.path, Value(f.ref, f.key, object[f.ref].rev)))]
       ELSE Return
    /\ UNCHANGED <<node, object, edits>>

ReadManifests ==
    /\ Doing("manifests")
    /\ LET ref == Head(todo).ref
           o == object[ref]
       IN  IF o = NoObject THEN Return
           ELSE Continue /\ work' = [work EXCEPT !.manifests = FilesOf(ref, [k \in o.keys |-> k], o.keys, o.rev)]
    /\ UNCHANGED <<node, object, edits>>

-----------------------------------------------------------------------------
(* Rendering.                                                              *)

(* What is written, in this order.  The authorities come with the first    *)
(* server, config.yaml comes last.                                         *)
FileList ==
    work.files \o work.registryFiles \o <<File("registries.yaml", Generated("registries.yaml"))>> \o work.own

authorities == <<File("server-ca.crt", Generated("server-ca.crt")), File("server-ca.key", Generated("server-ca.key"))>>

ConfigFile == <<File("config.yaml", Generated("config.yaml"))>>

NewInitControlPlane(files) == files \o authorities \o ConfigFile

NewJoinControlPlane(files) == files \o ConfigFile

NewJoinWorker(files) == files \o ConfigFile

WriteFiles ==
    CASE node.role = "init" -> NewInitControlPlane(FileList \o work.manifests)
      [] node.role = "join" -> NewJoinControlPlane(FileList \o work.manifests)
      [] node.role = "worker" -> NewJoinWorker(FileList)

ignoredCloudInitFields == {"runcmd", "write_files", "ntp"}

CleanupAdditionalCloudInit(sections) == sections \ ignoredCloudInitFields

Section(name, by) == [name |-> name, by |-> by]

UserSections(names) == [i \in 1..Cardinality(names) |-> Section(SetToSeq(names)[i], "user")]

(* The sections of the cloud-config, and the commands of its runcmd.  The  *)
(* additional sections come from AdditionalUserData: its data as they are  *)
(* and before runcmd, its config last and cleaned up.  Both are valid YAML *)
(* or end the reconcile.                                                   *)
CloudInitSections ==
    <<Section("write_files", "rke2")>> \o (IF node.ntp THEN <<Section("ntp", "rke2")>> ELSE <<>>)
    \o (IF node.extra = "data" THEN UserSections(node.sections) ELSE <<>>)
    \o <<Section("runcmd", "rke2")>>
    \o (IF node.extra = "config" THEN UserSections(CleanupAdditionalCloudInit(node.sections)) ELSE <<>>)

CloudInitCommands ==
    (IF node.checksum THEN <<"checksum">> ELSE <<>>) \o <<"install">>
    \o (IF node.cis = "none" THEN <<>> ELSE <<cisScript>>) \o <<"start", "sentinel">>

GetRKE2Commands ==
    (IF node.airGapped /\ node.checksum THEN <<"checksum">> ELSE <<>>) \o <<"install">>
    \o (IF node.cis = "none" THEN <<>> ELSE <<cisScript>>) \o <<"start", "sentinel">>

CloudInit ==
    [writes |-> WriteFiles, sections |-> CloudInitSections, commands |-> CloudInitCommands]

(* Butane's translation (external): a path may be written once.            *)
Translates(files) == \A i, j \in DOMAIN files : files[i].path = files[j].path => i = j

(* The additional Butane config is merged into the base config, and its    *)
(* files replace those of the same path.                                   *)
Merge(files) ==
    SelectSeq(files, LAMBDA f : f.path \notin node.sections)
    \o FilesOf(<<"butane", "">>, [p \in node.sections |-> p], node.sections, 0)

Ignition ==
    [writes   |-> IF node.extra \in {"config", "warns"} THEN Merge(WriteFiles) ELSE WriteFiles,
     sections |-> <<Section("write_files", "rke2"), Section("runcmd", "rke2")>>, commands |-> GetRKE2Commands]

(* Does rendering succeed?                                                 *)
Renders ==
    /\ node.extra # "invalid"
    /\ node.format = "ignition" => Translates(WriteFiles) /\ (node.extra = "warns" => ~node.strict)

Envelope ==
    IF ~node.gzip THEN "plain" ELSE IF node.format = "ignition" THEN "encapsulated" ELSE "gzip"

RenderAndStore ==
    /\ Doing("render")
    /\ IF Renders
       THEN /\ data' = [named |-> work.server \cup work.agent, holds |-> work.holds, registries |-> work.registries,
                        envelope |-> Envelope]
                       @@ (IF node.format = "ignition" THEN Ignition ELSE CloudInit)
            /\ todo' = <<>> /\ work' = NoWork
       ELSE Return
    /\ UNCHANGED <<node, object, edits>>

-----------------------------------------------------------------------------
(* What a node refers to, and the user who creates, edits and deletes it.  *)

Refs(n) ==
    {<<for, "">> : for \in n.refs} \cup {<<"tls", r>> : r \in {q \in DOMAIN n.registries : n.registries[q].tls = "secret"}}
    \cup {<<"auth", r>> : r \in {q \in DOMAIN n.registries : n.registries[q].auth}}
    \cup {n.files[i].ref : i \in {j \in DOMAIN n.files : n.files[j].key # "inline"}}

Put(ref, keys) ==
    /\ ref \in DOMAIN object /\ edits < MaxEdits
    /\ object' = [object EXCEPT ![ref] = [rev |-> edits + 2, keys |-> keys]]
    /\ edits' = edits + 1
    /\ UNCHANGED <<node, todo, work, data>>

Delete(ref) ==
    /\ ref \in DOMAIN object /\ edits < MaxEdits /\ object[ref] # NoObject
    /\ object' = [object EXCEPT ![ref] = NoObject]
    /\ edits' = edits + 1
    /\ UNCHANGED <<node, todo, work, data>>

Init ==
    /\ node \in Nodes
    /\ \E missing \in SUBSET Refs(node), keys \in [Refs(node) -> UNION {EntriesOf(ref) : ref \in Refs(node)}] :
        /\ Cardinality(missing) <= 1 /\ \A ref \in Refs(node) : keys[ref] \in EntriesOf(ref)
        /\ object = [ref \in Refs(node) |-> IF ref \in missing THEN NoObject ELSE [rev |-> 1, keys |-> keys[ref]]]
    /\ edits = 0 /\ todo = <<>> /\ work = NoWork /\ data = NoData

Controller ==
    \/ Begin \/ ReadReference \/ NewAgentConfig \/ NewRegistry \/ ReadRegistryTLS \/ ReadRegistryAuth
    \/ Registered \/ ReadFile \/ ReadManifests \/ RenderAndStore

User == \E ref \in DOMAIN object : Delete(ref) \/ \E keys \in EntriesOf(ref) : Put(ref, keys)

Next == Controller \/ User

(* The reconcile goes on, and an error is retried.                         *)
Spec == Init /\ [][Next]_vars /\ WF_vars(Controller)

-----------------------------------------------------------------------------
(* The shape of the collected work and of the data; Ignition data that is  *)
(* compressed is encapsulated (storeBootstrapData).                        *)
TypeOK ==
    /\ node \in Nodes /\ DOMAIN object = Refs(node) /\ edits \in 0..MaxEdits
    /\ todo = <<>> => work = NoWork
    /\ \A r \in DOMAIN work.registries : r \in DOMAIN node.registries
    /\ data # NoData => data.envelope \in IF node.format = "ignition" THEN {"plain", "encapsulated"} ELSE {"plain", "gzip"}

(* What the user writes: the files of the RKE2Config; Ignition's           *)
(* additional ones; all of them, with a write_files section in the         *)
(* additional data of cloud-init, which is not cleaned up.                 *)
WritesItself(path) ==
    \/ \E i \in DOMAIN node.files : node.files[i].path = path
    \/ node.format = "ignition" /\ path \in node.sections
    \/ node.format # "ignition" /\ node.extra = "data" /\ "write_files" \in node.sections

(* Of two sections with one name the later counts.                         *)
InForce(name) ==
    \E i \in DOMAIN data.sections :
        /\ data.sections[i] = Section(name, "rke2")
        /\ \A j \in DOMAIN data.sections : j > i => data.sections[j].name # name

(* The file a node ends up with: the last one written to the path.         *)
Arrives(path, value) ==
    /\ InForce("write_files")
    /\ \E i \in DOMAIN data.writes :
        /\ data.writes[i] = File(path, value)
        /\ \A j \in DOMAIN data.writes : j > i => data.writes[j].path # path

(* Whatever config.yaml and registries.yaml name arrives on the node with  *)
(* the content that was meant, unless the user writes that very path: a    *)
(* registry's TLS files are its own although all registries share their    *)
(* paths, the cloud provider's file, written twice, is the later one, and  *)
(* the sections of an additional cloud-config replace none of the          *)
(* controller's (cleanupAdditionalCloudInit).  config.yaml is always the   *)
(* generated one, and a CIS script that is run is there before RKE2 starts.*)
NamedFilesArrive ==
    data # NoData =>
        /\ \A f \in data.named \cup UNION {data.registries[r].named : r \in DOMAIN data.registries} :
            WritesItself(f.path) \/ Arrives(f.path, f.value)
        /\ \/ node.format = "ignition" \/ (node.extra = "data" /\ "write_files" \in node.sections)
           \/ Arrives("config.yaml", Generated("config.yaml"))
        /\ InForce("runcmd")
        /\ \A i \in DOMAIN data.commands : data.commands[i] = cisScript =>
            /\ \E f \in ToSet(data.writes) : f.path = cisScript
            /\ \A j \in DOMAIN data.commands : data.commands[j] = "start" => i < j

(* What the API documents of a reference's entries.                        *)
Supplied(ref) ==
    LET keys == object[ref].keys IN
    CASE ref[1] = "datastore" -> "endpoint" \in keys /\ ("cert.pem" \in keys => "key.pem" \in keys)
      [] ref[1] \in {"tls", "auth", "manifests"} -> object[ref] # NoObject
      [] OTHER -> keys \in EntriesOf(ref) /\ \A other \in EntriesOf(ref) : other \subseteq keys

(* The paths written, at most, for a node whose objects are complete.      *)
WrittenPaths ==
    LET readings == SelectSeq(ConfigReadings, LAMBDA r : r.step = "config")
        tls == {r \in DOMAIN node.registries : node.registries[r].tls = "secret"}
    IN  FlattenSeq([i \in DOMAIN readings |-> SetToSeq(Range(readings[i].paths))])
        \o FlattenSeq([i \in 1..Cardinality(tls) |-> TLSEntries])
        \o [i \in DOMAIN node.files |-> node.files[i].path]
        \o FlattenSeq([i \in DOMAIN ManifestReadings |-> SetToSeq(UNION EntriesOf(ManifestReadings[i].ref))])
        \o <<cisScript, "registries.yaml", "config.yaml">> \o [i \in DOMAIN authorities |-> authorities[i].path]

(* A node gets its data once the user has supplied what it refers to and   *)
(* lets it be (any error ends one reconcile, not the next), unless it asks *)
(* for what is never rendered: a TLS setting without a secret; with        *)
(* Ignition, a path with two writers, as a server's cloud provider         *)
(* configuration or a second registry's TLS entries have.                  *)
Renderable ==
    /\ node.cis # "other" /\ node.extra # "invalid" /\ ~(node.extra = "warns" /\ node.strict)
    /\ \A r \in DOMAIN node.registries : node.registries[r].tls # "insecure"
    /\ node.format = "ignition" => \A i, j \in DOMAIN WrittenPaths : WrittenPaths[i] = WrittenPaths[j] => i = j

DataPublished ==
    (Renderable /\ <>[](\A ref \in DOMAIN object : Supplied(ref))) => <>(data # NoData)

(* registries.yaml configures every registry ("Configs are configs for     *)
(* each registry", rke2config_types.go:377).                               *)
EveryRegistryConfigured ==
    data # NoData => DOMAIN data.registries = DOMAIN node.registries
=============================================================================
