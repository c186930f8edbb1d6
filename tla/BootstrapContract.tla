-------------------------- MODULE BootstrapContract --------------------------
(***************************************************************************)
(* What the bootstrap controller promises to the Machine controller and to *)
(* the nodes, without locks, secrets, retries or reconciles: for each      *)
(* config an offer of bootstrap data, which is fixed once the owner of the *)
(* config has taken it.  Bootstrap implements this specification.          *)
(***************************************************************************)
CONSTANTS Configs, CPMachines, None

VARIABLES
    up,       \* the cluster reports its control plane initialized
    lost,     \* the one initialisation may be lost, and another one started
    secret,   \* the token all nodes share
    offer,    \* the bootstrap data offered for each config
    taken,    \* the configs whose owner names the data
    redone    \* the configs handled again after their data was offered

vars == <<up, lost, secret, offer, taken, redone>>

Nothing == [kind |-> "none", token |-> None]

Init ==
    /\ up = FALSE
    /\ lost = FALSE
    /\ secret = None
    /\ offer = [c \in Configs |-> Nothing]
    /\ taken = {}
    /\ redone = {}

(* The token is chosen once.                                               *)
ChooseToken ==
    /\ secret = None
    /\ secret' \in Configs
    /\ UNCHANGED <<up, lost, offer, taken, redone>>

Make(c, kind) ==
    /\ offer[c] = Nothing
    /\ secret # None
    /\ offer' = [offer EXCEPT ![c] = [kind |-> kind, token |-> secret]]
    /\ UNCHANGED <<up, lost, secret, taken, redone>>

(* One config initializes the cluster.  The promise is given up when that  *)
(* initialisation may be lost, and it ends when the cluster is up.         *)
OfferInit(c) ==
    /\ c \in CPMachines
    /\ up \/ lost \/ \A d \in Configs : offer[d].kind # "init"
    /\ Make(c, "init")

(* The others join, and only a cluster that is up.                         *)
OfferJoin(c) == up /\ Make(c, "join")

(* A config may be handled again, from an old read of it.  Its offer stays *)
(* what it is, except that it becomes one to join a cluster that is up.    *)
Redo(c) ==
    /\ offer[c] # Nothing
    /\ redone' = redone \cup {c}
    /\ UNCHANGED <<up, lost, secret, offer, taken>>

OfferJoinInstead(c) ==
    /\ up /\ c \in redone /\ offer[c].kind = "init"
    /\ offer' = [offer EXCEPT ![c].kind = "join"]
    /\ UNCHANGED <<up, lost, secret, taken, redone>>

Take(c) ==
    /\ offer[c] # Nothing
    /\ taken' = taken \cup {c}
    /\ UNCHANGED <<up, lost, secret, offer, redone>>

(* A pivot forgets the offers that nobody has taken.                       *)
Withdraw ==
    /\ offer' = [c \in Configs |-> IF c \in taken THEN offer[c] ELSE Nothing]
    /\ UNCHANGED <<up, lost, secret, taken, redone>>

ComeUp ==
    /\ \E c \in taken : offer[c].kind = "init"
    /\ up' = TRUE
    /\ UNCHANGED <<lost, secret, offer, taken, redone>>

Lose == lost' = TRUE /\ UNCHANGED <<up, secret, offer, taken, redone>>

Next ==
    \/ ChooseToken
    \/ \E c \in Configs : OfferInit(c) \/ OfferJoin(c) \/ Redo(c) \/ OfferJoinInstead(c) \/ Take(c)
    \/ Withdraw
    \/ ComeUp
    \/ Lose

Spec == Init /\ [][Next]_vars
=============================================================================
