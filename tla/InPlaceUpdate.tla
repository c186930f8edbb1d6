---------------------------- MODULE InPlaceUpdate ----------------------------
(***************************************************************************)
(* Rolling a control plane out with in-place updates.                      *)
(*                                                                         *)
(* The reconciler of the RKE2ControlPlane decides from one look at the     *)
(* Machines, then writes one object per step: it creates the three objects *)
(* of a new Machine, deletes a Machine, or triggers an in-place update.    *)
(* Any two of its writes may be separated by a failed call, by a timed-out *)
(* wait for the cache or by a restart.  The Machine controller (external)  *)
(* calls the UpdateMachine hook of the extension until it answers success; *)
(* the extension reads the Machine's plan secret and may then write it;    *)
(* the system agent (external) on the node executes the plan.              *)
(***************************************************************************)
EXTENDS Naturals, MachineObjects

CONSTANTS
    Ids,                \* the names Machines can have
    Specs,              \* the specs users give the RKE2ControlPlane
    Scenarios,          \* Machines, replicas, maxSurge, the first spec, the later specs, the disturbances
    PlanStateSupport,   \* does the system agent maintain plan-state?
    Turtles             \* is Rancher Turtles' webhook installed?

Disturbances == {"edit", "interrupt", "fail", "lost", "delete", "mark", "remediate", "sick", "foreign", "planFails"}

VARIABLES
    scenario,   \* the scenario: replicas, maxSurge, ...
    spec,       \* the spec of the RKE2ControlPlane
    machines,   \* the Machines that exist
    deleting,   \* those with a deletion timestamp
    marked,     \* those with the delete annotation
    remediate,  \* those with the remediate annotation
    flagged,    \* those MachineHealthCheck wants remediated by their owner
    sick,       \* those whose health conditions are not True
    refused,    \* history: those whose trigger was completed with a spec the extension cannot absorb
    obj,        \* the objects of a Machine
    node,       \* what the node of a Machine runs
    secret,     \* the plan secret of a Machine
    answer,     \* the extension's last answer on a Machine
    call,       \* an UpdateMachine call between its read and its write
    pc, cur, want,  \* the reconciler: its next write, the Machine and the spec it works with
    left        \* how often each disturbance may still happen

vars == <<scenario, spec, machines, deleting, marked, remediate, flagged, sick, refused, obj, node, secret, answer, call, pc, cur, want, left>>

health == <<marked, remediate, flagged, sick, refused>>

world == <<scenario, spec, deleting, health, node, secret, answer, call>>

NoObjects == [machine |-> Missing, infra |-> Missing, config |-> Missing]

Happens(d) == left[d] > 0 /\ left' = [left EXCEPT ![d] = @ - 1]

-----------------------------------------------------------------------------
(* The reconciler's decision.                                              *)

Outdated == {m \in machines : ~UpToDate(spec, obj[m])}

MachinesNeedingRollout == Outdated \ deleting

MachinesToCompleteTriggerInPlaceUpdate ==
    {m \in machines : Updating(obj[m].machine) /\ ~IsPending(obj[m].machine)}

MachinesToCompleteInPlaceUpdate == {m \in machines : IsUpdateInProgress(obj[m].machine)}

PreflightChecks(excluded) ==
    machines = {} \/ (deleting = {} /\ sick \cap machines \subseteq excluded)

(* selectMachineForInPlaceUpdateOrScaleDown, up to the failure domain.     *)
SelectForUpdate(outdated) ==
    IF marked \cap outdated # {} THEN marked \cap outdated
    ELSE IF marked \cap machines # {} THEN marked \cap machines
    ELSE IF outdated # {} THEN outdated ELSE machines

SelectForScaleDown(outdated) ==
    IF marked \cap outdated # {} \/ marked \cap machines # {} \/ outdated # {}
    THEN SelectForUpdate(outdated)
    ELSE IF sick \cap machines # {} THEN sick \cap machines ELSE machines

Go(step, m) == pc' = step /\ cur' = m /\ want' = spec

Stay == UNCHANGED <<pc, cur, want>>

ScaleUpControlPlane == IF PreflightChecks({}) THEN Go("newInfra", None) ELSE Stay

ScaleDownControlPlane(outdated) ==
    \E m \in SelectForScaleDown(outdated) :
        IF PreflightChecks({m}) THEN Go("delete", m) ELSE Stay

(* Preflight checks fail for all: is this Machine the reason?  Then it is  *)
(* replaced, as it is when the extension cannot absorb the difference.     *)
TryInPlaceUpdate(m) ==
    IF ~PreflightChecks({})
    THEN IF PreflightChecks({m}) THEN ScaleDownControlPlane({m}) ELSE Stay
    ELSE IF CanUpdateMachine(spec, obj[m]) THEN Go("mark", m) ELSE ScaleDownControlPlane({m})

UpgradeControlPlane ==
    IF Cardinality(machines) < scenario.replicas + scenario.maxSurge THEN ScaleUpControlPlane
    ELSE \E m \in SelectForUpdate(MachinesNeedingRollout) :
            IF /\ EligibleForInPlaceUpdate(spec, obj[m]) /\ m \notin marked \cup remediate
               /\ Cardinality(machines \ Outdated) < scenario.replicas
            THEN TryInPlaceUpdate(m)
            ELSE ScaleDownControlPlane(MachinesNeedingRollout)

SyncMachines ==
    obj' = [m \in Ids |-> IF m \in machines \ deleting THEN SyncMachine(obj[m], spec) ELSE obj[m]]

(* reconcileUnhealthyMachines, as far as it matters here: which Machine is *)
(* deleted.  (ControlPlane has it in full.)  Etcd has a member on every    *)
(* node.                                                                   *)
Members == {m \in machines : node[m] # None}

CanSafelyRemoveEtcdMember(m) ==
    Cardinality((Members \ {m}) \ sick) >= Cardinality(Members \ {m}) \div 2 + 1

MachinesToBeRemediated ==
    {m \in IF flagged \cap remediate # {} THEN flagged \cap remediate ELSE flagged :
        Cardinality(machines) > 1 /\ CanSafelyRemoveEtcdMember(m) /\ machines # flagged}

(* A trigger that was cut off is completed with the spec of now, which the *)
(* extension is not asked about.                                           *)
CompleteTrigger ==
    \E m \in MachinesToCompleteTriggerInPlaceUpdate :
        IF Missing \in {obj[m].infra, obj[m].config} THEN Stay /\ UNCHANGED refused
        ELSE /\ Go("infra", m)
             /\ refused' = IF CanUpdateMachine(spec, obj[m]) THEN refused ELSE refused \cup {m}

(* One reconcile.  Waiting for a deletion is reconcileLifecycleHooks.      *)
Reconcile ==
    /\ pc = "idle"
    /\ SyncMachines
    /\ \/ deleting # {} /\ Stay /\ UNCHANGED refused
       \/ deleting = {} /\ MachinesToCompleteTriggerInPlaceUpdate # {} /\ CompleteTrigger
       \/ /\ deleting = {} /\ MachinesToCompleteTriggerInPlaceUpdate = {}
          /\ UNCHANGED refused
          /\ IF MachinesToBeRemediated # {} THEN \E m \in MachinesToBeRemediated : Go("delete", m)
             ELSE IF MachinesToCompleteInPlaceUpdate # {} THEN Stay
             ELSE IF MachinesNeedingRollout # {} THEN UpgradeControlPlane
             ELSE IF Cardinality(machines) < scenario.replicas THEN ScaleUpControlPlane
             ELSE IF Cardinality(machines) > scenario.replicas THEN ScaleDownControlPlane({})
             ELSE Stay
    /\ UNCHANGED <<scenario, spec, machines, deleting, marked, remediate, flagged, sick, node, secret, answer, call, left>>

-----------------------------------------------------------------------------
(* triggerInPlaceUpdate, one write a step.                                 *)

(* A write to an object that is gone fails, and with it the reconcile.     *)
Trigger(from, to, kind, changed) ==
    /\ pc = from
    /\ IF obj[cur][kind] = Missing
       THEN pc' = "idle" /\ cur' = None /\ want' = None /\ UNCHANGED obj
       ELSE /\ obj' = [obj EXCEPT ![cur][kind] = changed]
            /\ IF to = "idle" THEN pc' = "idle" /\ cur' = None /\ want' = None
               ELSE pc' = to /\ UNCHANGED <<cur, want>>
    /\ UNCHANGED <<world, machines, left>>

MarkInProgress == Trigger("mark", "infra", "machine", MarkUpdating(obj[cur].machine))

WriteInfra == Trigger("infra", "config", "infra", TriggerInfra(obj[cur].infra, want))

WriteConfig == Trigger("config", "machine", "config", TriggerConfig(obj[cur].config, want))

WriteMachine == Trigger("machine", "pending", "machine", TriggerMachine(obj[cur].machine, want))

MarkHookPending == Trigger("pending", "idle", "machine", MarkAsPending(obj[cur].machine))

-----------------------------------------------------------------------------
(* cloneConfigsAndGenerateMachine: the infrastructure machine, the         *)
(* RKE2Config and the Machine in turn; on an error, the clean up.          *)

Free == {m \in Ids : obj[m] = NoObjects}

CreateInfra ==
    /\ pc = "newInfra" /\ Free # {}
    /\ cur' = CHOOSE m \in Free : TRUE
    /\ obj' = [obj EXCEPT ![cur'].infra = CloneInfraTemplate(want)]
    /\ pc' = "newConfig"
    /\ UNCHANGED <<world, machines, want, left>>

CreateConfig ==
    /\ pc = "newConfig"
    /\ obj' = [obj EXCEPT ![cur].config = GenerateRKE2Config(want, Turtles)]
    /\ pc' = "newMachine"
    /\ UNCHANGED <<world, machines, cur, want, left>>

(* The node boots with what its objects say.                               *)
MachineCreated ==
    /\ obj' = [obj EXCEPT ![cur].machine = CreateMachineObject(want)]
    /\ machines' = machines \cup {cur}
    /\ node' = [node EXCEPT ![cur] = [version |-> want.version, files |-> want.files, config |-> want.config,
                                      shape |-> want.shape, server |-> want.server]]

CreateMachine ==
    /\ pc = "newMachine"
    /\ MachineCreated
    /\ pc' = "idle" /\ cur' = None /\ want' = None
    /\ UNCHANGED <<scenario, spec, deleting, health, secret, answer, call, left>>

(* A call fails, and nothing was created; or it was, and the answer is     *)
(* lost.  Without an answer the object is not known to the clean up.       *)
CreateFails ==
    /\ pc \in {"newConfig", "newMachine"} /\ Happens("fail")
    /\ pc' = IF pc = "newConfig" THEN "cleanupInfra" ELSE "cleanup"
    /\ UNCHANGED <<world, machines, obj, cur, want>>

CreateInfraLost ==
    /\ pc = "newInfra" /\ Free # {} /\ Happens("lost")
    /\ obj' = [obj EXCEPT ![CHOOSE m \in Free : TRUE].infra = CloneInfraTemplate(want)]
    /\ pc' = "idle" /\ want' = None
    /\ UNCHANGED <<world, machines, cur>>

CreateConfigLost ==
    /\ pc = "newConfig" /\ Happens("lost")
    /\ obj' = [obj EXCEPT ![cur].config = GenerateRKE2Config(want, Turtles)]
    /\ pc' = "cleanupInfra"
    /\ UNCHANGED <<world, machines, cur, want>>

CreateMachineLost ==
    /\ pc = "newMachine" /\ Happens("lost")
    /\ MachineCreated
    /\ pc' = "cleanup"
    /\ UNCHANGED <<scenario, spec, deleting, health, secret, answer, call, cur, want>>

CleanedUpInfraOnly ==
    obj' = [obj EXCEPT ![cur].infra = Missing]

(* The clean up deletes what it knows of, whether there is a Machine or    *)
(* not.                                                                    *)
CleanedUp ==
    obj' = [obj EXCEPT ![cur].infra = Missing, ![cur].config = IF pc = "cleanup" THEN Missing ELSE @]

(* With the infrastructure of a Machine goes its node.                     *)
CleanupFromGeneration ==
    /\ pc \in {"cleanup", "cleanupInfra"}
    /\ CleanedUp
    /\ node' = [node EXCEPT ![cur] = None]
    /\ sick' = sick \cup ({cur} \cap machines)
    /\ pc' = "idle" /\ cur' = None /\ want' = None
    /\ UNCHANGED <<scenario, spec, machines, deleting, marked, remediate, flagged, refused, secret, answer, call, left>>

DeleteSelected ==
    /\ pc = "delete"
    /\ deleting' = IF cur \in machines THEN deleting \cup {cur} ELSE deleting
    /\ pc' = "idle" /\ cur' = None /\ want' = None
    /\ UNCHANGED <<scenario, spec, machines, health, obj, node, secret, answer, call, left>>

(* A call fails, a wait for the cache times out, or the controller         *)
(* restarts: the reconcile ends where it was.                              *)
Interrupt ==
    /\ pc # "idle" /\ Happens("interrupt")
    /\ pc' = "idle" /\ cur' = None /\ want' = None
    /\ UNCHANGED <<world, machines, obj>>

-----------------------------------------------------------------------------
(* The Machine controller and the extension's DoUpdateMachine.             *)

Desired(m) == [version |-> obj[m].machine["version"].val,
               files   |-> obj[m].config["files"].val,
               config  |-> obj[m].config["config"].val]

DesiredPlan(m) == BuildUpgradePlan(Desired(m).version, Desired(m).files, Desired(m).config)

Outcome(m) ==
    IF secret[m] = None \/ DesiredPlan(m) = None THEN "Failed"
    ELSE EvaluatePlanOutcome(secret[m], DesiredPlan(m))

(* The hook is called while its three objects are marked and it is         *)
(* pending.  A plan that has to be submitted is written in a second step.  *)
DoUpdateMachine(m) ==
    /\ m \in machines \ deleting /\ call = None /\ answer[m] # "Success"
    /\ IsPending(obj[m].machine)
    /\ Updating(obj[m].machine) /\ Updating(obj[m].infra) /\ Updating(obj[m].config)
    /\ IF Outcome(m) = "NotSubmitted"
       THEN call' = [machine |-> m, plan |-> DesiredPlan(m)] /\ UNCHANGED answer
       ELSE /\ answer' = [answer EXCEPT ![m] = CASE Outcome(m) = "Waiting" -> "Retry"
                                                 [] Outcome(m) = "Succeeded" -> "Success"
                                                 [] OTHER -> "Failure"]
            /\ UNCHANGED call
    /\ UNCHANGED <<scenario, spec, machines, deleting, health, obj, node, secret, pc, cur, want, left>>

(* The merge patch touches the plan and its state, whatever they are now.  *)
WritePlan ==
    /\ call # None
    /\ LET m == call.machine IN
       IF secret[m] = None THEN UNCHANGED <<secret, answer>>
       ELSE /\ secret' = [secret EXCEPT ![m].plan = call.plan, ![m].state = "pending"]
            /\ answer' = [answer EXCEPT ![m] = "Retry"]
    /\ call' = None
    /\ UNCHANGED <<scenario, spec, machines, deleting, health, obj, node, pc, cur, want, left>>

(* After a success the Machine controller takes the marks off the objects, *)
(* and the pending hook last.                                              *)
CompleteUpdate(m) ==
    /\ m \in machines /\ answer[m] = "Success"
    /\ obj' = [obj EXCEPT ![m] = [kind \in DOMAIN @ |-> ClearUpdating(@[kind])]]
    /\ answer' = [answer EXCEPT ![m] = None]
    /\ UNCHANGED <<scenario, spec, machines, deleting, health, node, secret, call, pc, cur, want, left>>

HookDone(m) ==
    /\ m \in machines /\ IsPending(obj[m].machine) /\ ~Updating(obj[m].machine)
    /\ obj' = [obj EXCEPT ![m].machine = MarkAsDone(@)]
    /\ UNCHANGED <<world, machines, pc, cur, want, left>>

-----------------------------------------------------------------------------
(* The node: its plan secret appears when the agent registers; the agent   *)
(* executes a plan it has not completed and records the completion.  A     *)
(* plan without files leaves the files on the node.                        *)

NewSecret == [plan |-> None, state |-> None, applied |-> None, failed |-> None]

Register(m) ==
    /\ m \in Members /\ secret[m] = None
    /\ secret' = [secret EXCEPT ![m] = NewSecret]
    /\ UNCHANGED <<scenario, spec, machines, deleting, health, obj, node, answer, call, pc, cur, want, left>>

ForeignPlan == [version |-> None, files |-> None]

Run(n, plan) ==
    [n EXCEPT !.version = IF plan.version = None THEN @ ELSE plan.version,
              !.files   = IF plan.files = None THEN @ ELSE plan.files]

HasWork(s) == s # None /\ s.plan # None /\ s.plan \notin {s.applied, s.failed}

Completed(s, outcome) ==
    [s EXCEPT !.state   = IF PlanStateSupport THEN outcome ELSE @,
              !.applied = IF outcome = "succeeded" THEN s.plan ELSE None,
              !.failed  = IF outcome = "failed" THEN s.plan ELSE None]

AgentStarts(m) ==
    /\ PlanStateSupport /\ m \in Members /\ HasWork(secret[m]) /\ secret[m].state = "pending"
    /\ secret' = [secret EXCEPT ![m].state = "in-progress"]
    /\ UNCHANGED <<scenario, spec, machines, deleting, health, obj, node, answer, call, pc, cur, want, left>>

AgentSucceeds(m) ==
    /\ m \in Members /\ HasWork(secret[m])
    /\ PlanStateSupport => secret[m].state = "in-progress"
    /\ node' = [node EXCEPT ![m] = Run(@, secret[m].plan)]
    /\ secret' = [secret EXCEPT ![m] = Completed(@, "succeeded")]
    /\ UNCHANGED <<scenario, spec, machines, deleting, health, obj, answer, call, pc, cur, want, left>>

AgentFails(m) ==
    /\ m \in Members /\ HasWork(secret[m]) /\ Happens("planFails")
    /\ PlanStateSupport => secret[m].state = "in-progress"
    /\ secret' = [secret EXCEPT ![m] = Completed(@, "failed")]
    /\ UNCHANGED <<scenario, spec, machines, deleting, health, obj, node, answer, call, pc, cur, want>>

(* Rancher submits a plan of its own once the last one is complete.        *)
ForeignSubmits(m) ==
    /\ m \in machines /\ secret[m] # None /\ Happens("foreign")
    /\ secret[m].state \in Terminal \cup {None}
    /\ secret' = [secret EXCEPT ![m].plan = ForeignPlan, ![m].state = "pending"]
    /\ UNCHANGED <<scenario, spec, machines, deleting, health, obj, node, answer, call, pc, cur, want>>

-----------------------------------------------------------------------------
(* Users, health, and the deletion of a Machine by the Machine controller. *)

EditSpec(s) ==
    /\ s \in scenario.specs \ {spec} /\ Happens("edit")
    /\ spec' = s
    /\ UNCHANGED <<scenario, machines, deleting, health, obj, node, secret, answer, call, pc, cur, want>>

DeleteMachine(m) ==
    /\ m \in machines \ deleting /\ Happens("delete")
    /\ deleting' = deleting \cup {m}
    /\ UNCHANGED <<scenario, spec, machines, health, obj, node, secret, answer, call, pc, cur, want>>

AnnotateForDeletion(m) ==
    /\ m \in machines \ marked /\ Happens("mark")
    /\ marked' = marked \cup {m}
    /\ UNCHANGED <<scenario, spec, machines, deleting, remediate, flagged, sick, refused, obj, node, secret, answer, call, pc, cur, want>>

AnnotateForRemediation(m) ==
    /\ m \in machines \ remediate /\ Happens("remediate")
    /\ remediate' = remediate \cup {m}
    /\ UNCHANGED <<scenario, spec, machines, deleting, marked, flagged, sick, refused, obj, node, secret, answer, call, pc, cur, want>>

(* It flags an annotated Machine and one whose node does not come up.      *)
MachineHealthCheck(m) ==
    /\ m \in machines \ (flagged \cup deleting)
    /\ m \in remediate \/ node[m] = None
    /\ flagged' = flagged \cup {m}
    /\ UNCHANGED <<scenario, spec, machines, deleting, marked, remediate, sick, refused, obj, node, secret, answer, call, pc, cur, want, left>>

FallSick(m) ==
    /\ m \in machines \ sick /\ Happens("sick")
    /\ sick' = sick \cup {m}
    /\ UNCHANGED <<scenario, spec, machines, deleting, marked, remediate, flagged, refused, obj, node, secret, answer, call, pc, cur, want>>

Recover(m) ==
    /\ m \in sick /\ node[m] # None
    /\ sick' = sick \ {m}
    /\ UNCHANGED <<scenario, spec, machines, deleting, marked, remediate, flagged, refused, obj, node, secret, answer, call, pc, cur, want, left>>

InfraGone(m) ==
    /\ m \in deleting /\ obj[m].infra # Missing
    /\ obj' = [obj EXCEPT ![m].infra = Missing]
    /\ UNCHANGED <<world, machines, pc, cur, want, left>>

MachineGone(m) ==
    /\ m \in deleting /\ obj[m].infra = Missing
    /\ obj' = [obj EXCEPT ![m] = NoObjects]
    /\ machines' = machines \ {m} /\ deleting' = deleting \ {m}
    /\ marked' = marked \ {m} /\ remediate' = remediate \ {m} /\ flagged' = flagged \ {m}
    /\ sick' = sick \ {m} /\ refused' = refused \ {m}
    /\ node' = [node EXCEPT ![m] = None] /\ secret' = [secret EXCEPT ![m] = None]
    /\ answer' = [answer EXCEPT ![m] = None]
    /\ UNCHANGED <<scenario, spec, call, pc, cur, want, left>>

-----------------------------------------------------------------------------
Steps == {"idle", "mark", "infra", "config", "machine", "pending",
          "newInfra", "newConfig", "newMachine", "cleanup", "cleanupInfra", "delete"}

(* The Machines of an initial control plane, created by this controller.   *)
Created(s) == [machine |-> CreateMachineObject(s), infra |-> CloneInfraTemplate(s),
               config  |-> GenerateRKE2Config(s, Turtles)]

Init ==
    \E c \in Scenarios :
        /\ scenario = c
        /\ spec = c.spec /\ left = c.left
        /\ machines = c.machines
        /\ obj = [m \in Ids |-> IF m \in c.machines THEN Created(c.spec) ELSE NoObjects]
        /\ node = [m \in Ids |-> IF m \in c.machines
                                 THEN [version |-> c.spec.version, files |-> c.spec.files, config |-> c.spec.config,
                                       shape |-> c.spec.shape, server |-> c.spec.server]
                                 ELSE None]
        /\ secret = [m \in Ids |-> None] /\ answer = [m \in Ids |-> None]
        /\ deleting = {} /\ marked = {} /\ remediate = {} /\ flagged = {} /\ sick = {} /\ refused = {}
        /\ call = None
        /\ pc = "idle" /\ cur = None /\ want = None

Controller ==
    \/ Reconcile \/ DeleteSelected
    \/ MarkInProgress \/ WriteInfra \/ WriteConfig \/ WriteMachine \/ MarkHookPending
    \/ CreateInfra \/ CreateConfig \/ CreateMachine \/ CleanupFromGeneration

(* The Machine controller, with the extension it calls; the nodes and the  *)
(* infrastructure.                                                         *)
Updater == WritePlan \/ \E m \in Ids : DoUpdateMachine(m) \/ CompleteUpdate(m) \/ HookDone(m)

Nodes ==
    \E m \in Ids : \/ Register(m) \/ AgentStarts(m) \/ AgentSucceeds(m) \/ Recover(m)
                  \/ MachineHealthCheck(m) \/ InfraGone(m) \/ MachineGone(m)

Disturbance ==
    \/ CreateFails \/ CreateInfraLost \/ CreateConfigLost \/ CreateMachineLost \/ Interrupt
    \/ \E s \in Specs : EditSpec(s)
    \/ \E m \in Ids : \/ AgentFails(m) \/ ForeignSubmits(m) \/ FallSick(m)
                     \/ DeleteMachine(m) \/ AnnotateForDeletion(m) \/ AnnotateForRemediation(m)

Next == Controller \/ Updater \/ Nodes \/ Disturbance

(* The reconcilers run again until there is nothing to do, and so do the   *)
(* nodes: each of the three groups goes on as long as it can.              *)
Fairness == WF_vars(Controller) /\ WF_vars(Updater) /\ WF_vars(Nodes)

Spec == Init /\ [][Next]_vars /\ Fairness

-----------------------------------------------------------------------------
(* The state's shape: who is what, and the objects a Machine is made of.   *)
TypeOK ==
    /\ deleting \cup marked \cup remediate \cup flagged \cup sick \cup refused \subseteq machines
    /\ machines = {m \in Ids : obj[m].machine # Missing}
    /\ pc \in Steps /\ (pc = "idle") = (want = None)
    /\ answer \in [Ids -> {None, "Retry", "Success", "Failure"}]
    /\ \A m \in Ids : \A kind \in DOMAIN obj[m] :
        obj[m][kind] # Missing => \A f \in DOMAIN obj[m][kind] : obj[m][kind][f].own \subseteq Managers

(* A control plane updates one Machine at a time: no second update starts  *)
(* while one is in progress, however the first was interrupted             *)
(* (MachinesToComplete... in reconcileNormal).                             *)
OneUpdateAtATime ==
    Cardinality({m \in machines : Updating(obj[m].machine) \/ IsPending(obj[m].machine)}) <= 1

(* When the Machine controller is told to start, its three objects are     *)
(* those of one spec of the RKE2ControlPlane: an interrupted trigger that  *)
(* is completed after an edit leaves no mixture (triggerInPlaceUpdate's    *)
(* order of writes).                                                       *)
PendingUpdateIsCoherent ==
    \A m \in machines \ deleting :
        IsPending(obj[m].machine) =>
            \E s \in scenario.specs \cup {scenario.spec} :
                /\ obj[m].machine["version"].val = s.version
                /\ obj[m].config["config"].val = s.config
                /\ s.files # None => obj[m].config["files"].val = s.files
                /\ obj[m].infra["clonedFrom"].val = s.template /\ obj[m].infra["shape"].val = s.shape

(* The extension answers success only if the node runs what the Machine's  *)
(* objects ask for (evaluatePlanOutcome).                                  *)
SuccessMeansApplied ==
    \A m \in machines \ deleting :
        answer[m] = "Success" =>
            /\ node[m].version = Desired(m).version
            /\ Desired(m).files # None => node[m].files = Desired(m).files

(* A Machine that counts as up to date, with no update in progress, has a  *)
(* node with all of the spec: its version, files and server configuration, *)
(* its RKE2Config and its infrastructure; unless it has lost its node      *)
(* (CleanupFromGeneration) or, for the last two, a trigger of an update    *)
(* was cut off and then completed with a spec the extension was not asked  *)
(* about and would have refused (MachinesToCompleteTriggerInPlaceUpdate in *)
(* reconcileNormal).                                                       *)
UpToDateNodeRunsSpec ==
    \A m \in Members \ Outdated :
        ~IsUpdateInProgress(obj[m].machine) =>
            /\ node[m].version = spec.version /\ node[m].server = spec.server
            /\ spec.files # None => node[m].files \ {Injected} = spec.files
            /\ m \notin refused => node[m].config = spec.config /\ node[m].shape = spec.shape

(* The same with no exception for a completed trigger.                     *)
NodeRunsWholeSpec ==
    \A m \in Members \ Outdated :
        ~IsUpdateInProgress(obj[m].machine) => node[m].config = spec.config /\ node[m].shape = spec.shape

Incomplete == {m \in machines \ deleting : Missing \in {obj[m].infra, obj[m].config}}

Orphans == {m \in Ids \ machines : obj[m] # NoObjects /\ m # cur}

Spent(d) == scenario.left[d] - left[d]

(* A creation that fails is undone, whichever of the three objects failed. *)
(* Only a lost answer or an interruption leaves something behind, each one *)
(* either objects without a Machine or a Machine without its objects       *)
(* (cloneConfigsAndGenerateMachine and its clean up).                      *)
ObjectsFollowMachines ==
    Cardinality(Incomplete) + Cardinality(Orphans) <= Spent("lost") + Spent("interrupt")

(* The clean up never takes the objects of a Machine ("attempt to clean up *)
(* any dangling resources").                                               *)
CleanupTakesOnlyDangling == Incomplete = {}

(* The extension submits a plan only to an agent that has none to execute, *)
(* Rancher's plans included; what it replaces is never a plan of its own,  *)
(* at most one that Rancher submits between its read and its write         *)
(* (evaluatePlanOutcome's look at plan-state).                             *)
PlansRunToTheirEnd ==
    [][/\ (call = None /\ call' # None) => ~HasWork(secret[call'.machine])
       /\ WritePlan => \A m \in Ids :
            (secret'[m] # secret[m] /\ HasWork(secret[m])) => secret[m].plan = ForeignPlan]_vars

(* Once users and faults come to rest, every Machine is up to date, has    *)
(* its objects, and the template's metadata, or its removal, has reached   *)
(* all three; or an update has failed and waits for a human.               *)
Converges ==
    <>[](\/ /\ pc = "idle" /\ Outdated = {} /\ Incomplete = {} /\ Cardinality(machines) = scenario.replicas
            /\ \A m \in machines \ deleting : \A kind \in DOMAIN obj[m] : obj[m][kind]["meta"].val = spec.meta
         \/ \E m \in machines : answer[m] = "Failure")
=============================================================================
