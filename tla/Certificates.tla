----------------------------- MODULE Certificates -----------------------------
(***************************************************************************)
(* The certificate authorities of a cluster and what is derived from them: *)
(* the files of the first node, the kubeconfig, the etcd client.           *)
(*                                                                         *)
(* The control plane controller and the bootstrap controller both run      *)
(* LookupOrGenerate, one API call a step, on secrets that users may supply *)
(* as well.  A key pair is named after who generated it, and when; the     *)
(* issuer of a signed certificate is the key pair that signed it.          *)
(***************************************************************************)
EXTENDS Naturals, Sequences

CONSTANTS
    None,
    Scenarios       \* how often users and faults act: a function on Disturbances

Disturbances == {"fault", "supply", "delete", "deleteEtcdCA", "rotate", "kubeconfig", "expire", "forget"}

Actors == {"controlplane", "bootstrap"}

Purposes == {"ca", "cca", "peer-etcd", "etcd"}

NewCertificatesForInitialControlPlane == <<"ca", "cca", "peer-etcd", "etcd">>

NewCertificatesForLegacyControlPlane == <<"ca", "cca">>

VARIABLES
    legacy,         \* does the RKE2ControlPlane have the legacy annotation?
    secrets,        \* the key pair stored for a purpose
    pc, at,         \* where an actor is, and at which of its certificates
    keyPair,        \* the key pairs an actor has in memory
    generated,      \* how often an actor has generated key pairs
    endpoint,       \* does the Cluster have a control plane endpoint?
    machine,        \* does the first Machine exist?
    data,           \* the key pairs in its bootstrap data
    kubeconfig,     \* the kubeconfig secret
    found, server,  \* the kubeconfig and the cluster CA as last read
    cached,         \* the etcd CA as the cache of secrets has it
    clientCerts,    \* the cache of client certificates: a CA and an issuer
    client,         \* the current etcd client: the CA it trusts, its certificate's issuer
    left            \* how often each disturbance may still happen

vars == <<legacy, secrets, pc, at, keyPair, generated, endpoint, machine, data, kubeconfig,
          found, server, cached, clientCerts, client, left>>

memory == <<keyPair, generated, found, server>>
derived == <<machine, data, kubeconfig>>
etcdClient == <<cached, clientCerts, client>>

Certificates == IF legacy THEN NewCertificatesForLegacyControlPlane ELSE NewCertificatesForInitialControlPlane

Wanted == {Certificates[i] : i \in DOMAIN Certificates}

Key(by, n) == [by |-> by, n |-> n]

(* A user's key pair may have an elliptic curve key; the controllers       *)
(* generate RSA keys.                                                      *)
UserKeys(n) == {Key(by, n) : by \in {"user", "userEC"}}

IsEC(key) == key.by = "userEC"

NoKeyPairs == [p \in Purposes |-> None]

Happens(d) == left[d] > 0 /\ left' = [left EXCEPT ![d] = @ - 1]

Goto(a, step, i) == pc' = [pc EXCEPT ![a] = step] /\ at' = [at EXCEPT ![a] = i]

-----------------------------------------------------------------------------
(* LookupOrGenerate.                                                       *)

(* The bootstrap controller acts on a Machine without data; the control    *)
(* plane controller reconciles again and again.                            *)
Begin(a) ==
    /\ pc[a] = "idle"
    /\ a = "bootstrap" => machine /\ data = None
    /\ keyPair' = [keyPair EXCEPT ![a] = NoKeyPairs]
    /\ Goto(a, "lookup", 1)
    /\ UNCHANGED <<legacy, secrets, generated, endpoint, found, server, derived, etcdClient, left>>

(* The key pair stored for a purpose; None if the secret is not found,     *)
(* which is no error (ManagedCertificate.Lookup).                          *)
LookupSecret(p) == secrets[p]

(* The look-up ends with the first certificate that is not stored.         *)
Lookup(a) ==
    /\ pc[a] = "lookup"
    /\ LET p == Certificates[at[a]] IN
       /\ keyPair' = [keyPair EXCEPT ![a][p] = LookupSecret(p)]
       /\ IF LookupSecret(p) = None \/ at[a] = Len(Certificates)
          THEN Goto(a, "generate", 1) ELSE Goto(a, "lookup", at[a] + 1)
    /\ UNCHANGED <<legacy, secrets, generated, endpoint, found, server, derived, etcdClient, left>>

(* A new authority, self-signed, of no one else's making.                  *)
GenerateCACert(a) == Key(a, generated[a])

(* Every certificate without a key pair gets a new one.                    *)
Generate(a) ==
    /\ pc[a] = "generate"
    /\ LET lacking == {p \in Wanted : keyPair[a][p] = None} IN
       /\ keyPair' = [keyPair EXCEPT ![a] =
                        [p \in Purposes |-> IF p \in lacking THEN GenerateCACert(a) ELSE @[p]]]
       /\ generated' = [generated EXCEPT ![a] = IF lacking = {} THEN @ ELSE @ + 1]
    /\ Goto(a, "saveGet", 1)
    /\ UNCHANGED <<legacy, secrets, endpoint, found, server, derived, etcdClient, left>>

AfterSave(a) == IF a = "bootstrap" THEN "store" ELSE IF endpoint THEN "kubeconfig" ELSE "idle"

SaveNext(a) ==
    IF at[a] = Len(Certificates) THEN Goto(a, AfterSave(a), 1) ELSE Goto(a, "saveGet", at[a] + 1)

(* SaveGenerated: what is stored already stays, unnoticed by the caller.   *)
SaveGet(a) ==
    /\ pc[a] = "saveGet"
    /\ IF secrets[Certificates[at[a]]] = None THEN Goto(a, "saveCreate", at[a]) ELSE SaveNext(a)
    /\ UNCHANGED <<legacy, secrets, memory, endpoint, derived, etcdClient, left>>

SaveCreateOrUpdate(a) ==
    /\ pc[a] = "saveCreate"
    /\ secrets' = [secrets EXCEPT ![Certificates[at[a]]] = keyPair[a][Certificates[at[a]]]]
    /\ SaveNext(a)
    /\ UNCHANGED <<legacy, memory, endpoint, derived, etcdClient, left>>

SaveCreate(a) ==
    /\ pc[a] = "saveCreate"
    /\ LET p == Certificates[at[a]] IN
       secrets' = [secrets EXCEPT ![p] = IF @ = None THEN keyPair[a][p] ELSE @]
    /\ SaveNext(a)
    /\ UNCHANGED <<legacy, memory, endpoint, derived, etcdClient, left>>

InterruptIgnored(a) ==
    /\ pc[a] # "idle" /\ Happens("fault")
    /\ Goto(a, IF pc[a] \in {"saveGet", "saveCreate"} THEN AfterSave(a) ELSE "idle", 1)
    /\ UNCHANGED <<legacy, secrets, memory, endpoint, derived, etcdClient>>

(* A call fails or the manager restarts: the reconcile ends where it was.  *)
Interrupt(a) ==
    /\ pc[a] # "idle" /\ Happens("fault")
    /\ Goto(a, "idle", 1)
    /\ UNCHANGED <<legacy, secrets, memory, endpoint, derived, etcdClient>>

(* The bootstrap data takes the key pairs the controller has in memory.    *)
StoreBootstrapData ==
    /\ pc["bootstrap"] = "store"
    /\ data' = keyPair["bootstrap"]
    /\ Goto("bootstrap", "idle", 1)
    /\ UNCHANGED <<legacy, secrets, memory, endpoint, machine, kubeconfig, etcdClient, left>>

-----------------------------------------------------------------------------
(* The control plane controller goes on with the kubeconfig, and with the  *)
(* first Machine.                                                          *)

CP == "controlplane"

(* Only a kubeconfig of the RKE2ControlPlane is rotated.                   *)
NeedsRotation(k) == k.owner = "rcp" /\ k.expiring

ReconcileKubeconfig ==
    /\ pc[CP] = "kubeconfig"
    /\ found' = kubeconfig
    /\ IF kubeconfig = None \/ NeedsRotation(kubeconfig) THEN Goto(CP, "readCA", 1) ELSE Goto(CP, "machine", 1)
    /\ UNCHANGED <<legacy, secrets, keyPair, generated, endpoint, server, derived, etcdClient, left>>

(* A missing authority fails a rotation; a first kubeconfig is left for a  *)
(* later reconcile, and this one goes on.                                  *)
DependentCertificateNotFound == Goto(CP, IF found = None THEN "machine" ELSE "idle", 1)

ReadClusterCA ==
    /\ pc[CP] = "readCA"
    /\ server' = secrets["ca"]
    /\ IF secrets["ca"] = None THEN DependentCertificateNotFound ELSE Goto(CP, "readClientCA", 1)
    /\ UNCHANGED <<legacy, secrets, keyPair, generated, endpoint, found, derived, etcdClient, left>>

SignedInMemory ==
    [owner |-> "rcp", server |-> server, issuer |-> keyPair[CP]["cca"], expiring |-> FALSE]

(* The kubeconfig trusts the cluster CA and is signed by the client CA.    *)
Signed == [owner |-> "rcp", server |-> server, issuer |-> secrets["cca"], expiring |-> FALSE]

(* The client CA is read, and the secret is created or, if it has not      *)
(* changed since it was read, updated.                                     *)
WriteKubeconfig ==
    /\ pc[CP] = "readClientCA"
    /\ IF secrets["cca"] = None THEN DependentCertificateNotFound /\ UNCHANGED kubeconfig
       ELSE IF kubeconfig = found THEN Goto(CP, "machine", 1) /\ kubeconfig' = Signed
       ELSE Goto(CP, "idle", 1) /\ UNCHANGED kubeconfig
    /\ UNCHANGED <<legacy, secrets, memory, endpoint, machine, data, etcdClient, left>>

CreateMachine ==
    /\ pc[CP] = "machine"
    /\ machine' = TRUE
    /\ Goto(CP, "idle", 1)
    /\ UNCHANGED <<legacy, secrets, memory, endpoint, data, kubeconfig, etcdClient, left>>

-----------------------------------------------------------------------------
(* The etcd client of the control plane controller.                        *)

(* The cache of secrets, and the API server where the cache has nothing.   *)
GetEtcdCAKeyPair == IF cached # None THEN cached ELSE secrets["etcd"]

HasForCluster(ca) == clientCerts

(* The entries of the client certificate cache under the key of a CA.      *)
Has(ca) == {e \in clientCerts : e.ca = ca}

(* A certificate that the CA signs, with the CA it is to be used with.     *)
GenerateClientCert(ca) == [ca |-> ca, issuer |-> ca]

(* The pair of a CA with an elliptic curve key is itself the client's      *)
(* certificate; for any other one is issued and kept.                      *)
NewWorkload ==
    /\ data # None
    /\ LET ca == GetEtcdCAKeyPair IN
       \/ /\ ca = None
          /\ client' = None /\ UNCHANGED clientCerts
       \/ /\ ca # None /\ IsEC(ca)
          /\ client' = [ca |-> ca, issuer |-> ca] /\ UNCHANGED clientCerts
       \/ /\ ca # None /\ ~IsEC(ca) /\ Has(ca) # {}
          /\ client' = [ca |-> ca, issuer |-> (CHOOSE e \in Has(ca) : TRUE).issuer]
          /\ UNCHANGED clientCerts
       \/ /\ ca # None /\ ~IsEC(ca) /\ Has(ca) = {}
          /\ client' = GenerateClientCert(ca)
          /\ clientCerts' = clientCerts \cup {GenerateClientCert(ca)}
    /\ UNCHANGED <<legacy, secrets, pc, at, memory, endpoint, derived, cached, left>>

CacheSync ==
    /\ cached # secrets["etcd"]
    /\ cached' = secrets["etcd"]
    /\ UNCHANGED <<legacy, secrets, pc, at, memory, endpoint, derived, clientCerts, client, left>>

ForgetClientCerts ==
    /\ clientCerts # {} /\ Happens("forget")
    /\ clientCerts' = {}
    /\ UNCHANGED <<legacy, secrets, pc, at, memory, endpoint, derived, cached, client>>

-----------------------------------------------------------------------------
(* Users and time.                                                         *)

SetEndpoint ==
    /\ ~endpoint
    /\ endpoint' = TRUE
    /\ UNCHANGED <<legacy, secrets, pc, at, memory, derived, etcdClient, left>>

(* Only of the etcd CA does a controller look at the kind of key.          *)
UserSupplies(p) ==
    /\ secrets[p] = None /\ Happens("supply")
    /\ \E key \in IF p = "etcd" THEN UserKeys(0) ELSE {Key("user", 0)} : secrets' = [secrets EXCEPT ![p] = key]
    /\ UNCHANGED <<legacy, pc, at, memory, endpoint, derived, etcdClient>>

(* At any time, or only the etcd CA of a cluster that has started.         *)
UserDeletes(p) ==
    /\ secrets[p] # None
    /\ \E d \in {"delete", "deleteEtcdCA"} :
        (d = "deleteEtcdCA" => data # None /\ p = "etcd") /\ Happens(d)
    /\ secrets' = [secrets EXCEPT ![p] = None]
    /\ UNCHANGED <<legacy, pc, at, memory, endpoint, derived, etcdClient>>

UserRotatesEtcdCA ==
    /\ data # None /\ secrets["etcd"] # None /\ Happens("rotate")
    /\ \E key \in UserKeys(1) : secrets' = [secrets EXCEPT !["etcd"] = key]
    /\ UNCHANGED <<legacy, pc, at, memory, endpoint, derived, etcdClient>>

UserSuppliesKubeconfig ==
    /\ kubeconfig = None /\ Happens("kubeconfig")
    /\ kubeconfig' = [owner |-> "user", server |-> Key("user", 0), issuer |-> Key("user", 0), expiring |-> FALSE]
    /\ UNCHANGED <<legacy, secrets, pc, at, memory, endpoint, machine, data, etcdClient>>

ClientCertificateExpires ==
    /\ kubeconfig # None /\ ~kubeconfig.expiring /\ Happens("expire")
    /\ kubeconfig' = [kubeconfig EXCEPT !.expiring = TRUE]
    /\ UNCHANGED <<legacy, secrets, pc, at, memory, endpoint, machine, data, etcdClient>>

-----------------------------------------------------------------------------
Init ==
    /\ legacy \in BOOLEAN /\ left \in Scenarios
    /\ secrets = NoKeyPairs
    /\ pc = [a \in Actors |-> "idle"] /\ at = [a \in Actors |-> 1]
    /\ keyPair = [a \in Actors |-> NoKeyPairs] /\ generated = [a \in Actors |-> 0]
    /\ endpoint = FALSE /\ machine = FALSE /\ data = None /\ kubeconfig = None
    /\ found = None /\ server = None
    /\ cached = None /\ clientCerts = {} /\ client = None

LookupOrGenerate(a) == Begin(a) \/ Lookup(a) \/ Generate(a) \/ SaveGet(a) \/ SaveCreate(a)

ControlPlaneController ==
    LookupOrGenerate(CP) \/ ReconcileKubeconfig \/ ReadClusterCA \/ WriteKubeconfig \/ CreateMachine

BootstrapController == LookupOrGenerate("bootstrap") \/ StoreBootstrapData

EtcdClient == NewWorkload \/ CacheSync

Disturbance ==
    \/ \E a \in Actors : Interrupt(a)
    \/ \E p \in Wanted : UserSupplies(p) \/ UserDeletes(p)
    \/ UserRotatesEtcdCA \/ UserSuppliesKubeconfig \/ ClientCertificateExpires \/ ForgetClientCerts

Next == ControlPlaneController \/ BootstrapController \/ EtcdClient \/ SetEndpoint \/ Disturbance

(* Both managers reconcile until there is nothing to do, the cache catches *)
(* up, and the infrastructure provider sets the endpoint.                  *)
Fairness ==
    /\ WF_vars(ControlPlaneController) /\ WF_vars(BootstrapController)
    /\ WF_vars(NewWorkload) /\ WF_vars(CacheSync) /\ WF_vars(SetEndpoint)

Spec == Init /\ [][Next]_vars /\ Fairness

-----------------------------------------------------------------------------
(* The state's shape; key pairs are complete before they are saved.        *)
TypeOK ==
    /\ DOMAIN secrets = Purposes /\ legacy \in BOOLEAN /\ endpoint \in BOOLEAN /\ machine \in BOOLEAN
    /\ \A a \in Actors : at[a] \in 1..Len(Certificates)
    /\ \A a \in Actors : pc[a] \in {"saveGet", "saveCreate", "store"} =>
                            \A p \in Wanted : keyPair[a][p] # None

(* What is stored stays: no controller replaces an authority, its own or a *)
(* user's, whatever it generated itself (SaveGenerated).  None belongs to  *)
(* an RKE2Config, whose deletion would take it along: the control plane    *)
(* controller saves all before there is a Machine.                         *)
StoredAuthorityKept ==
    [][\A p \in Purposes :
        /\ (secrets[p] # None /\ secrets'[p] # secrets[p]) => secrets'[p] \in {None} \cup UserKeys(1)
        /\ secrets'[p] # None => secrets'[p].by # "bootstrap"]_vars

(* The first node gets the authorities that are stored, although the two   *)
(* controllers look them up and generate them independently.               *)
NodeTrustsStored ==
    [][(data = None /\ data' # None) => \A p \in Wanted : data'[p] = secrets[p]]_vars

(* The kubeconfig is made of the stored authorities, also when a user      *)
(* supplied them while the controller was generating its own.              *)
KubeconfigFromStored ==
    (kubeconfig # None /\ kubeconfig.owner = "rcp") =>
        kubeconfig.server = secrets["ca"] /\ kubeconfig.issuer = secrets["cca"]

(* The first node gets its data, the kubeconfig is there and renewed, and  *)
(* the etcd client follows the stored CA, also after it was rotated, with  *)
(* a certificate that CA issued (NewWorkload and its certificate cache).   *)
ClusterReachable ==
    <>[](/\ data # None /\ kubeconfig # None /\ (kubeconfig.owner = "rcp" => ~kubeconfig.expiring)
         /\ IF secrets["etcd"] = None THEN client = None
            ELSE client = [ca |-> secrets["etcd"], issuer |-> secrets["etcd"]])
=============================================================================
