------------------------------ MODULE InitMutex ------------------------------
(***************************************************************************)
(* The control-plane init lock of pkg/locking: a ConfigMap that names the  *)
(* Machine allowed to initialise the cluster.  Lock and Unlock are several *)
(* API calls each, and up to ten RKE2Configs reconcile at once, so every   *)
(* API call is a step of its own.                                          *)
(*                                                                         *)
(* The module holds the lock's state and steps.  What a caller does before *)
(* Lock, after Lock succeeds (pc = "certificates") and after Unlock        *)
(* (pc = after[c]) is in Bootstrap, which extends this module.             *)
(***************************************************************************)
CONSTANTS
    CPMachines,   \* Machines (and their RKE2Configs) of the control plane
    Workers,      \* RKE2Configs of worker Machines and MachinePools
    None          \* "no value": no ConfigMap, no holder read, no token

ASSUME ConfigsAssumption ==
    /\ CPMachines \cap Workers = {}
    /\ None \notin CPMachines \cup Workers

Configs == CPMachines \cup Workers

VARIABLES
    lock,      \* Machine named in the lock ConfigMap, None when it is absent
    present,   \* control-plane Machines that exist
    pc,        \* where the reconcile of each config is
    holder,    \* the holder Lock read from the ConfigMap
    after      \* where Unlock returns to: "idle" or "join"

mutexVars == <<lock, present, pc, holder, after>>

Goto(c, l) == pc' = [pc EXCEPT ![c] = l]

(* Unlock returns.                                                         *)
Unlocked(c) ==
    /\ Goto(c, after[c])
    /\ after' = [after EXCEPT ![c] = "idle"]

(* Unlock is called; its result is ignored, so it always continues at l.   *)
CallUnlock(c, l) ==
    /\ Goto(c, "Unlock.Get")
    /\ after' = [after EXCEPT ![c] = l]

(* Lock reads the ConfigMap: absent, its own, or another Machine's.        *)
LockGet(c) ==
    /\ pc[c] = "Lock.Get"
    /\ \/ /\ lock = None
          /\ Goto(c, "Lock.Create")
          /\ UNCHANGED holder
       \/ /\ lock = c
          /\ Goto(c, "certificates")
          /\ UNCHANGED holder
       \/ /\ lock \notin {None, c}
          /\ Goto(c, "Lock.GetHolder")
          /\ holder' = [holder EXCEPT ![c] = lock]
    /\ UNCHANGED <<lock, present, after>>

LockGetHolderAlways(c) ==
    /\ pc[c] = "Lock.GetHolder"
    /\ Goto(c, "idle")
    /\ holder' = [holder EXCEPT ![c] = None]
    /\ UNCHANGED <<lock, present, after>>

(* Lock looks the holder's Machine up; when it is gone the lock is         *)
(* released, but the caller is refused all the same and tries again later. *)
LockGetHolder(c) ==
    /\ pc[c] = "Lock.GetHolder"
    /\ \/ /\ holder[c] \in present
          /\ Goto(c, "idle")
          /\ UNCHANGED after
       \/ /\ holder[c] \notin present
          /\ CallUnlock(c, "idle")
    /\ holder' = [holder EXCEPT ![c] = None]
    /\ UNCHANGED <<lock, present>>

LockCreateOverwrites(c) ==
    /\ pc[c] = "Lock.Create"
    /\ lock' = c
    /\ Goto(c, "certificates")
    /\ UNCHANGED <<present, holder, after>>

(* Lock creates the ConfigMap; the API server refuses a second one.        *)
LockCreate(c) ==
    /\ pc[c] = "Lock.Create"
    /\ \/ /\ lock = None
          /\ lock' = c
          /\ Goto(c, "certificates")
       \/ /\ lock # None
          /\ Goto(c, "idle")
          /\ UNCHANGED lock
    /\ UNCHANGED <<present, holder, after>>

(* Unlock reads the ConfigMap and deletes it only when it finds one.       *)
UnlockGet(c) ==
    /\ pc[c] = "Unlock.Get"
    /\ \/ lock = None /\ Unlocked(c)
       \/ lock # None /\ Goto(c, "Unlock.Delete") /\ UNCHANGED after
    /\ UNCHANGED <<lock, present, holder>>

(* The delete carries no precondition: it removes whatever ConfigMap is    *)
(* there by now, whoever created it.                                       *)
UnlockDelete(c) ==
    /\ pc[c] = "Unlock.Delete"
    /\ lock' = None
    /\ Unlocked(c)
    /\ UNCHANGED <<present, holder>>

(* An API call of Lock fails: Lock reports false.  A failed create may     *)
(* still have reached the API server.                                      *)
LockError(c) ==
    /\ pc[c] \in {"Lock.Get", "Lock.GetHolder", "Lock.Create"}
    /\ Goto(c, "idle")
    /\ holder' = [holder EXCEPT ![c] = None]
    /\ lock' \in {lock} \cup
                 (IF pc[c] = "Lock.Create" /\ lock = None THEN {c} ELSE {})
    /\ UNCHANGED <<present, after>>

(* An API call of Unlock fails: the caller carries on with the lock held.  *)
UnlockError(c) ==
    /\ pc[c] \in {"Unlock.Get", "Unlock.Delete"}
    /\ Unlocked(c)
    /\ lock' \in {lock} \cup (IF pc[c] = "Unlock.Delete" THEN {None} ELSE {})
    /\ UNCHANGED <<present, holder>>

MutexStep(c) ==
    LockGet(c) \/ LockGetHolder(c) \/ LockCreate(c) \/ UnlockGet(c) \/ UnlockDelete(c)

MutexError(c) == LockError(c) \/ UnlockError(c)
==============================================================================
