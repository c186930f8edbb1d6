-------------------------- MODULE RuntimeExtensions --------------------------
(***************************************************************************)
(* ExtensionConfigs, the managers that keep a registry of them, and the    *)
(* control plane controller that asks the registry for the handler of an   *)
(* in-place update.                                                        *)
(*                                                                         *)
(* Two managers run the ExtensionConfig controller.  The core manager      *)
(* injects the CA, discovers the handlers and writes both to the object;   *)
(* the manager of this provider is read only and validates what it reads.  *)
(* Each has a cache, a work queue and a registry that is warmed up after a *)
(* start.                                                                  *)
(***************************************************************************)
EXTENDS Naturals, Sequences, FiniteSets

CONSTANTS
    None, Missing,
    Configs,        \* the names of ExtensionConfigs
    Targets,        \* the client configurations users give them
    Offers,         \* the handlers the extension behind a target returns
    Catalog,        \* the hooks known to the managers
    Scenarios       \* the first configs, and how often users and faults act

Managers == {"core", "rke2"}

ReadOnly(m) == m = "rke2"

Disturbances == {"edit", "create", "delete", "pause", "rotate", "outage", "restart", "lostCall"}

VARIABLES
    config,         \* the ExtensionConfig objects
    ca, served,     \* the CA in the secret, the CA of the extensions' certificates
    up,             \* the targets whose extension answers
    cache, queue,   \* per manager: what it has seen of the objects, what it has to reconcile
    ready, registry,\* per manager: the registry
    warm,           \* per manager: a warm-up in progress
    work,           \* the object the core manager is reconciling
    asked, replaced,\* the control plane controller: the handler it is to call, whether it replaced a Machine
    steady,         \* the configs that neither users nor faults have touched
    left, choices   \* what users and faults may still do, the (config, target) pairs users choose

vars == <<config, ca, served, up, cache, queue, ready, registry, warm, work, asked, replaced, steady, left, choices>>

api == <<config, ca, served, up>>
controllers == <<cache, queue, ready, registry, warm, work>>
caller == <<asked, replaced>>

Happens(d) == left[d] > 0 /\ left' = [left EXCEPT ![d] = @ - 1] /\ UNCHANGED choices

NoObjects == [c \in Configs |-> Missing]

-----------------------------------------------------------------------------
(* Discovery: defaults, validation and the names of the handlers.          *)

DefaultTimeoutSeconds == 10

DefaultDiscoveryResponse(handlers) ==
    [i \in DOMAIN handlers |->
        [handlers[i] EXCEPT !.policy  = IF @ = None THEN "Fail" ELSE @,
                            !.timeout = IF @ = None THEN DefaultTimeoutSeconds ELSE @]]

ValidateDiscoveryResponse(handlers) ==
    /\ \A i, j \in DOMAIN handlers : handlers[i].name = handlers[j].name => i = j
    /\ \A i \in DOMAIN handlers :
        /\ handlers[i].timeout \in 0..30
        /\ handlers[i].policy \in {"Fail", "Ignore"}
        /\ handlers[i].hook \in Catalog

Valid(target) == ValidateDiscoveryResponse(DefaultDiscoveryResponse(Offers[target]))

(* A call reaches the extension with the right CA, while it answers.       *)
HTTPCall(target, caBundle) == target \in up /\ caBundle = served

(* The object after discovery: its handlers, the target they come from and *)
(* the condition.  A failure leaves the handlers as they were.             *)
Discover(obj) ==
    IF HTTPCall(obj.target, obj.ca) /\ Valid(obj.target)
    THEN [obj EXCEPT !.handlers = DefaultDiscoveryResponse(Offers[obj.target]), !.from = obj.target, !.discovered = TRUE, !.observed = obj.generation]
    ELSE [obj EXCEPT !.discovered = FALSE, !.observed = obj.generation]

ValidateOldGeneration(obj) == obj.ca # None /\ obj.discovered = TRUE

ValidateExtensionConfig(obj) ==
    /\ obj.ca # None
    /\ obj.discovered = TRUE /\ obj.observed = obj.generation

-----------------------------------------------------------------------------
(* The registry.                                                           *)

Registration(obj) ==
    [target |-> obj.target, ca |-> obj.ca, handlers |-> obj.handlers, from |-> obj.from]

Add(m, c, obj) == registry' = [registry EXCEPT ![m][c] = Registration(obj)]

Remove(m, c) == registry' = [registry EXCEPT ![m][c] = None]

WarmUpRegistry(m, objs) ==
    /\ ready' = [ready EXCEPT ![m] = TRUE]
    /\ registry' = [registry EXCEPT ![m] = [c \in Configs |-> IF objs[c] = Missing THEN None ELSE Registration(objs[c])]]

HandlersFor(m, hook) ==
    {c \in Configs : /\ registry[m][c] # None
                     /\ \E i \in DOMAIN registry[m][c].handlers : registry[m][c].handlers[i].hook = hook}

ListAnyway(m, hook) == HandlersFor(m, hook)

(* A cold registry answers with an error.                                  *)
List(m, hook) == IF ready[m] THEN HandlersFor(m, hook) ELSE None

-----------------------------------------------------------------------------
(* The warm-up of a manager: list the objects, validate or reconcile each, *)
(* fill the registry.  One failure and it starts over.                     *)

StartWarmUp(m) ==
    /\ ~ready[m] /\ warm[m] = None
    /\ warm' = [warm EXCEPT ![m] = [objs   |-> config, failed |-> FALSE,
                                    todo   |-> IF ReadOnly(m) THEN {} ELSE {c \in Configs : config[c] # Missing}]]
    /\ UNCHANGED <<api, cache, queue, ready, registry, work, caller, steady, left, choices>>

FinishWarmUp(m) ==
    /\ warm[m] # None /\ warm[m].todo = {}
    /\ warm' = [warm EXCEPT ![m] = None]
    /\ IF warm[m].failed \/ (ReadOnly(m) /\ \E c \in Configs : /\ warm[m].objs[c] # Missing
                                                              /\ ~ValidateExtensionConfig(warm[m].objs[c]))
       THEN UNCHANGED <<ready, registry>>
       ELSE WarmUpRegistry(m, warm[m].objs)
    /\ UNCHANGED <<api, cache, queue, work, caller, steady, left, choices>>

-----------------------------------------------------------------------------
(* Reconcile.  A request stays in the queue until the registry is ready,   *)
(* and comes back after an error.                                          *)

Dequeue(m, c) == queue' = [queue EXCEPT ![m] = @ \ {c}]

ReconcileDeleteOnce(m, c) ==
    /\ c \in queue[m] /\ cache[m][c] = Missing /\ (m = "core" => work = None)
    /\ (IF ready[m] THEN Remove(m, c) ELSE UNCHANGED registry) /\ Dequeue(m, c)
    /\ UNCHANGED <<api, cache, ready, warm, work, caller, steady, left, choices>>

ReconcileDelete(m, c) ==
    /\ c \in queue[m] /\ ready[m] /\ cache[m][c] = Missing /\ (m = "core" => work = None)
    /\ Remove(m, c) /\ Dequeue(m, c)
    /\ UNCHANGED <<api, cache, ready, warm, work, caller, steady, left, choices>>

(* Read only: a paused or an invalid object leaves the registry alone.     *)
ReconcileReadOnly(m, c) ==
    /\ ReadOnly(m) /\ c \in queue[m] /\ ready[m] /\ cache[m][c] # Missing
    /\ LET obj == cache[m][c] IN
       IF obj.pausedCondition \/ ~ValidateExtensionConfig(obj)
       THEN UNCHANGED registry
       ELSE Add(m, c, obj)
    /\ Dequeue(m, c)
    /\ UNCHANGED <<api, cache, ready, warm, work, caller, steady, left, choices>>

(* The CA of the secret is written to the object; the answer to that patch *)
(* is what discovery starts from.  An object that is gone ends the work.   *)
ReconcileCABundle(c, obj, inWarmUp) ==
    LET patched == [config[c] EXCEPT !.ca = ca, !.generation = IF config[c].ca = ca THEN @ ELSE @ + 1]
        begin(o, step) == [name |-> c, original |-> o, obj |-> o, step |-> step, warm |-> inWarmUp] IN
    IF obj.ca = ca THEN work' = begin(obj, "discover") /\ UNCHANGED config
    ELSE IF config[c] = Missing THEN work' = begin(obj, "gone") /\ UNCHANGED config
    ELSE work' = begin(patched, "discover") /\ config' = [config EXCEPT ![c] = patched]

(* Read and write: the Paused condition follows the annotation first.      *)
ReconcileExtensionConfig(c) ==
    LET m == "core" obj == cache["core"][c] IN
    /\ c \in queue[m] /\ ready[m] /\ obj # Missing /\ work = None
    /\ Dequeue(m, c)
    /\ IF obj.paused # obj.pausedCondition
       THEN /\ config' = [config EXCEPT ![c] = IF @ = Missing THEN @ ELSE [@ EXCEPT !.pausedCondition = obj.paused]]
            /\ UNCHANGED work
       ELSE IF obj.paused THEN UNCHANGED <<config, work>>
       ELSE ReconcileCABundle(c, obj, FALSE)
    /\ UNCHANGED <<ca, served, up, cache, ready, registry, warm, caller, steady, left, choices>>

WarmUpOne(c) ==
    /\ warm["core"] # None /\ c \in warm["core"].todo /\ work = None
    /\ ReconcileCABundle(c, warm["core"].objs[c], TRUE)
    /\ UNCHANGED <<ca, served, up, cache, queue, ready, registry, warm, caller, steady, left, choices>>

(* The work ends: in the warm-up's result, in the registry, or in an error *)
(* that brings the request back.                                           *)
Finish(obj, failed) ==
    LET c == work.name IN
    /\ work' = None
    /\ IF work.warm
       THEN /\ warm' = [warm EXCEPT !["core"].todo = @ \ {c}, !["core"].objs[c] = obj,
                                    !["core"].failed = @ \/ failed]
            /\ UNCHANGED <<queue, registry>>
       ELSE /\ UNCHANGED warm
            /\ IF failed THEN queue' = [queue EXCEPT !["core"] = @ \cup {c}] /\ UNCHANGED registry
               ELSE Add("core", c, obj) /\ UNCHANGED queue

DiscoverExtensionConfig ==
    /\ work # None /\ work.step = "discover"
    /\ work' = [work EXCEPT !.obj = Discover(@), !.step = "conditions"]
    /\ UNCHANGED <<api, cache, queue, ready, registry, warm, caller, steady, left, choices>>

(* The patch helper sends the conditions in one patch and the rest of the  *)
(* status in a later one, each if it differs from the object the work      *)
(* began with.  The spec may have changed meanwhile, the object be gone.   *)
ConditionsOf(obj) == <<obj.discovered, obj.observed>>

StatusOf(obj) == <<obj.handlers, obj.from>>

PatchConditions ==
    /\ work # None /\ work.step = "conditions" /\ config[work.name] # Missing
    /\ config' = IF ConditionsOf(work.obj) = ConditionsOf(work.original) THEN config
                 ELSE [config EXCEPT ![work.name].discovered = work.obj.discovered,
                                     ![work.name].observed = work.obj.observed]
    /\ work' = [work EXCEPT !.step = "status"]
    /\ UNCHANGED <<ca, served, up, cache, queue, ready, registry, warm, caller, steady, left, choices>>

PatchStatus ==
    /\ work # None /\ work.step = "status" /\ config[work.name] # Missing
    /\ config' = IF StatusOf(work.obj) = StatusOf(work.original) THEN config
                 ELSE [config EXCEPT ![work.name].handlers = work.obj.handlers, ![work.name].from = work.obj.from]
    /\ Finish(work.obj, work.obj.discovered = FALSE)
    /\ UNCHANGED <<ca, served, up, cache, ready, caller, steady, left, choices>>

PatchNotFound ==
    /\ work # None
    /\ work.step = "gone" \/ (work.step \in {"conditions", "status"} /\ config[work.name] = Missing)
    /\ Finish(work.obj, TRUE)
    /\ UNCHANGED <<api, cache, ready, caller, steady, left, choices>>

CacheSync(m, c) ==
    /\ cache[m][c] # config[c]
    /\ cache' = [cache EXCEPT ![m][c] = config[c]]
    /\ queue' = [queue EXCEPT ![m] = @ \cup {c}]
    /\ UNCHANGED <<api, ready, registry, warm, work, caller, steady, left, choices>>

-----------------------------------------------------------------------------
(* canUpdateMachine: no handler and the Machine is replaced; more than one *)
(* is an error, and so is a registry that is not ready.                    *)

GetAllExtensions ==
    /\ asked = None
    /\ LET handlers == List("rke2", "CanUpdateMachine") IN
       IF handlers = {} THEN replaced' = TRUE /\ UNCHANGED asked
       ELSE IF handlers # None /\ Cardinality(handlers) = 1 THEN asked' \in handlers /\ UNCHANGED replaced
       ELSE UNCHANGED caller
    /\ UNCHANGED <<api, controllers, steady, left, choices>>

Policy(r) == (CHOOSE h \in {r.handlers[i] : i \in DOMAIN r.handlers} : h.hook = "CanUpdateMachine").policy

(* A failed call is an error, unless the handler's policy is to ignore it: *)
(* then nothing is patched and the Machine is replaced.                    *)
Failed == replaced' = (replaced \/ Policy(registry["rke2"][asked]) = "Ignore")

CallExtension ==
    /\ asked # None
    /\ LET r == registry["rke2"][asked] IN
       IF asked \notin HandlersFor("rke2", "CanUpdateMachine") \/ HTTPCall(r.target, r.ca)
       THEN UNCHANGED replaced
       ELSE Failed
    /\ asked' = None
    /\ UNCHANGED <<api, controllers, steady, left, choices>>

(* The answer is lost, or comes after the timeout.                         *)
CallLost ==
    /\ asked # None /\ asked \in HandlersFor("rke2", "CanUpdateMachine") /\ Happens("lostCall")
    /\ Failed
    /\ asked' = None /\ steady' = steady \ {asked}
    /\ UNCHANGED <<api, controllers>>

-----------------------------------------------------------------------------
(* Users, extensions and restarts.                                         *)

Touch(cs) == steady' = steady \ cs

NewConfig(target) ==
    [target |-> target, generation |-> 1, ca |-> None, handlers |-> <<>>, from |-> None,
     discovered |-> None, observed |-> 0, paused |-> FALSE, pausedCondition |-> FALSE]

Create(c, target) ==
    /\ config[c] = Missing /\ Happens("create")
    /\ config' = [config EXCEPT ![c] = NewConfig(target)]
    /\ Touch({c})
    /\ UNCHANGED <<ca, served, up, controllers, caller>>

Edit(c, target) ==
    /\ config[c] # Missing /\ config[c].target # target /\ Happens("edit")
    /\ config' = [config EXCEPT ![c].target = target, ![c].generation = @ + 1]
    /\ Touch({c})
    /\ UNCHANGED <<ca, served, up, controllers, caller>>

(* An object that a cache has not seen yet is still seen to come and go.   *)
Delete(c) ==
    /\ config[c] # Missing /\ Happens("delete")
    /\ config' = [config EXCEPT ![c] = Missing]
    /\ queue' = [m \in Managers |-> queue[m] \cup (IF cache[m][c] = Missing THEN {c} ELSE {})]
    /\ Touch({c})
    /\ UNCHANGED <<ca, served, up, cache, ready, registry, warm, work, caller>>

Pause(c) ==
    /\ config[c] # Missing /\ ~config[c].paused /\ Happens("pause")
    /\ config' = [config EXCEPT ![c].paused = TRUE]
    /\ Touch({c})
    /\ UNCHANGED <<ca, served, up, controllers, caller>>

Unpause(c) ==
    /\ config[c] # Missing /\ config[c].paused
    /\ config' = [config EXCEPT ![c].paused = FALSE]
    /\ UNCHANGED <<ca, served, up, controllers, caller, steady, left, choices>>

(* The secret's new CA is an event for every config that takes its CA.     *)
RotateCA ==
    /\ ca = served /\ Happens("rotate")
    /\ ca' = "ca2"
    /\ queue' = [queue EXCEPT !["core"] = @ \cup {c \in Configs : cache["core"][c] # Missing}]
    /\ Touch(Configs)
    /\ UNCHANGED <<config, served, up, cache, ready, registry, warm, work, caller>>

ServeCA ==
    /\ served # ca
    /\ served' = ca
    /\ UNCHANGED <<config, ca, up, controllers, caller, steady, left, choices>>

Outage(t) ==
    /\ t \in up /\ Happens("outage")
    /\ up' = up \ {t}
    /\ Touch(Configs)
    /\ UNCHANGED <<config, ca, served, controllers, caller>>

Return(t) ==
    /\ t \notin up
    /\ up' = up \cup {t}
    /\ UNCHANGED <<config, ca, served, controllers, caller, steady, left, choices>>

(* A manager restarts: the registry is cold, the cache lists every object. *)
Restart(m) ==
    /\ Happens("restart")
    /\ ready' = [ready EXCEPT ![m] = FALSE]
    /\ registry' = [registry EXCEPT ![m] = [c \in Configs |-> None]]
    /\ warm' = [warm EXCEPT ![m] = None]
    /\ cache' = [cache EXCEPT ![m] = config]
    /\ queue' = [queue EXCEPT ![m] = {c \in Configs : config[c] # Missing}]
    /\ work' = IF m = "core" THEN None ELSE work
    /\ asked' = IF m = "rke2" THEN None ELSE asked
    /\ UNCHANGED <<api, replaced, steady>>

-----------------------------------------------------------------------------
(* The managers start on configs that were discovered before.              *)
Init ==
    \E s \in Scenarios :
        /\ ca = "ca1" /\ served = "ca1" /\ up = Targets
        /\ config = [c \in Configs |-> IF c \in DOMAIN s.configs
                                       THEN Discover([NewConfig(s.configs[c]) EXCEPT !.ca = "ca1"]) ELSE Missing]
        /\ cache = [m \in Managers |-> config]
        /\ queue = [m \in Managers |-> DOMAIN s.configs]
        /\ ready = [m \in Managers |-> FALSE]
        /\ registry = [m \in Managers |-> [c \in Configs |-> None]]
        /\ warm = [m \in Managers |-> None] /\ work = None
        /\ asked = None /\ replaced = FALSE
        /\ steady = DOMAIN s.configs
        /\ left = s.left /\ choices = s.choices

CoreManager ==
    \/ StartWarmUp("core") \/ FinishWarmUp("core")
    \/ DiscoverExtensionConfig \/ PatchConditions \/ PatchStatus \/ PatchNotFound
    \/ \E c \in Configs : WarmUpOne(c) \/ ReconcileDelete("core", c) \/ ReconcileExtensionConfig(c)

RKE2Manager ==
    \/ StartWarmUp("rke2") \/ FinishWarmUp("rke2")
    \/ \E c \in Configs : ReconcileDelete("rke2", c) \/ ReconcileReadOnly("rke2", c)

ControlPlaneController == GetAllExtensions \/ CallExtension

Environment ==
    \/ \E m \in Managers, c \in Configs : CacheSync(m, c)
    \/ ServeCA \/ \E t \in Targets : Return(t)
    \/ \E c \in Configs : Unpause(c)

Disturbance ==
    \/ CallLost \/ RotateCA
    \/ \E c \in Configs : Delete(c) \/ Pause(c) 
    \/ \E choice \in choices : Create(choice[1], choice[2]) \/ Edit(choice[1], choice[2])
    \/ \E t \in Targets : Outage(t)
    \/ \E m \in Managers : Restart(m)

Next == CoreManager \/ RKE2Manager \/ ControlPlaneController \/ Environment \/ Disturbance

(* Work queues are drained, caches catch up, the extensions come back and  *)
(* users end a pause.                                                      *)
Fairness == WF_vars(CoreManager) /\ WF_vars(RKE2Manager) /\ WF_vars(Environment)

Spec == Init /\ [][Next]_vars /\ Fairness

-----------------------------------------------------------------------------
(* The state's shape: what is registered passed the validation.            *)
TypeOK ==
    /\ \A c \in Configs : config[c] # Missing => config[c].observed <= config[c].generation
    /\ \A m \in Managers : queue[m] \subseteq Configs /\ (ready[m] => warm[m] = None)
    /\ replaced \in BOOLEAN /\ asked \in Configs \cup {None}
    /\ \A m \in Managers, c \in Configs :
        registry[m][c] # None => /\ registry[m][c].ca # None
                                 /\ \A i \in DOMAIN registry[m][c].handlers : registry[m][c].handlers[i].timeout <= 30

(* A registered target has answered a discovery with valid handlers, and   *)
(* the manager that discovers registers them with that target only.  The   *)
(* read-only manager may register the handlers of an earlier target, when  *)
(* it reads the object between the two patches of patchExtensionConfig;    *)
(* but not once it has seen the last word: a newer version of the object   *)
(* is on its way to it, or the core manager has still to finish the status *)
(* (after a crash too), or the object has become one it refuses or paused. *)
Unfinished(c) ==
    \/ ~ready["core"] \/ c \in queue["core"] \/ cache["core"][c] # config[c]
    \/ work # None /\ work.name = c

HandlersBelongToTarget ==
    \A m \in Managers, c \in Configs :
        registry[m][c] # None =>
            /\ Valid(registry[m][c].target)
            /\ \/ registry[m][c].from = registry[m][c].target
               \/ /\ ReadOnly(m)
                  /\ \/ c \in queue[m] \/ cache[m][c] # config[c]
                     \/ config[c] = Missing \/ config[c].pausedCondition \/ ~ValidateExtensionConfig(config[c])
                     \/ Unfinished(c)

(* As long as users and faults leave one ExtensionConfig with a handler    *)
(* alone, no Machine is replaced for want of a handler, however often the  *)
(* managers restart (a cold registry is an error, not an empty list).      *)
RestartReplacesNoMachine == replaced => steady = {}

(* Once every extension gives a valid answer, both managers are warm, and  *)
(* both registries forget a removed config and follow a changed one: its   *)
(* target, its CA and its handlers.                                        *)
RegistriesConverge ==
    <>[](\A c \in Configs : config[c] # Missing => Valid(config[c].target)) =>
    <>[]\A m \in Managers, c \in Configs :
        /\ ready[m]
        /\ registry[m][c] = IF config[c] = Missing THEN None
                            ELSE [target |-> config[c].target, ca |-> ca, from |-> config[c].target,
                                  handlers |-> DefaultDiscoveryResponse(Offers[config[c].target])]
=============================================================================
