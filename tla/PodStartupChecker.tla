------------------------- MODULE PodStartupChecker -------------------------
(***************************************************************************)
(* The pod startup checker of pkg/checker/podstartup: a run collects       *)
(* leftovers, creates volume claims (and a storage class), perhaps a       *)
(* NodePool, and a Pod, waits for the Pod's container, and deletes what it *)
(* created in deferred calls.                                              *)
(*                                                                         *)
(* An object is a kind and the timestamp in its name. Instances are the    *)
(* checkers of one or several configurations and processes; Label is the   *)
(* checker name that labels their objects. A call either is served, or     *)
(* fails: then it may have been served all the same, and a create may also *)
(* be served later. Calls on an expired context are never served.          *)
(*                                                                         *)
(* There is no clock. The time a run's context has left is ample, ending   *)
(* (less than a second) or over. An object becomes `old`, in appearance    *)
(* older than the checker's timeout, only when the time of the run that    *)
(* created it is not ample or that run is over: the run had no more than   *)
(* the timeout and began before the object, whose creation time is rounded *)
(* down to a second.                                                       *)
(***************************************************************************)
EXTENDS Integers, FiniteSets, Sequences

CONSTANTS
    Instances,          \* pod startup checkers that run concurrently
    Label,              \* the label value, the checker's name, of each
    Stamps,             \* timestamps, one of which is in every object's name
    NoStamp,
    CSIConfigs,         \* the values of enabledCSIs: sequences of CSI types
    EnableNodeProvisioningTest,     \* config
    MaxSyntheticPods,   \* config
    MaxLate,            \* bound: creates in flight that no client waits for
    CanCrash,           \* whether a process may die
    GcInTime            \* whether contexts outlive garbage collection

CSITypes == {"azureFile", "azureDisk", "azureBlob"}

ASSUME InstancesAssumption == IsFiniteSet(Instances) /\ Instances # {}
ASSUME StampsAssumption == IsFiniteSet(Stamps) /\ NoStamp \notin Stamps
ASSUME ConfigAssumption ==
    /\ CSIConfigs \subseteq Seq(CSITypes)
    /\ EnableNodeProvisioningTest \in BOOLEAN
    /\ MaxSyntheticPods \in Nat \ {0}
ASSUME EnvironmentAssumption ==
    MaxLate \in Nat /\ CanCrash \in BOOLEAN /\ GcInTime \in BOOLEAN

VARIABLES
    enabledCSIs, \* config: the CSI types, in order; it never changes
    objs,       \* objects the server stores
    owner,      \* label value of each timestamp's objects
    old,        \* those not leaving and older than the checkers' timeout
    leaving,    \* those deleted but kept by a finalizer or a grace period
    late,       \* creates in flight that no client waits for
    pc,         \* where each check(ctx) stands
    time,       \* what the run's context has left
    stamp,      \* timeStampStr
    stage,      \* garbageCollect: which kind of object
    todo,       \* garbageCollect: listed objects still to look at
    k,          \* createCSIResources, deleteCSIResources: which object
    result,     \* what check(ctx) returns
    failed      \* history: a call of the run failed, or its context expired

cluster == <<objs, owner, old, leaving, late>>
gc == <<stage, todo>>
state == <<objs, owner, old, leaving, late, pc, time, stamp, stage, todo, k,
           result, failed>>
vars == <<enabledCSIs, state>>

-----------------------------------------------------------------------------

PVCKinds == CSITypes

\* The objects of the enabled CSI types, in the order createCSIResources creates
\* them; deleteCSIResources deletes them in the same order. Azure File needs a
\* StorageClass for its claim.
CsiObjects(type) == IF type = "azureFile" THEN <<"sc", type>> ELSE <<type>>
PlanOf(csis) ==
    LET plan[n \in 0..Len(csis)] ==
            IF n = 0 THEN <<>> ELSE plan[n - 1] \o CsiObjects(csis[n])
    IN  plan[Len(csis)]
Plans == [csis \in CSIConfigs |-> PlanOf(csis)]
CsiPlan == Plans[enabledCSIs]

\* The kinds of object the configurations create.
Kinds == {"pod"} \cup (IF EnableNodeProvisioningTest THEN {"pool"} ELSE {})
        \cup (UNION {{Plans[csis][n] : n \in DOMAIN Plans[csis]} : csis \in CSIConfigs})
Objects == [kind : Kinds, stamp : Stamps]

\* Mutant: claims are not collected.
MutantGcStages == IF EnableNodeProvisioningTest THEN <<"pod", "pool", "sc">>
                                                ELSE <<"pod", "sc">>

GcStages == IF EnableNodeProvisioningTest THEN <<"pod", "pool", "pvc", "sc">>
                                          ELSE <<"pod", "pvc", "sc">>

\* o is what the stage is about.
OfStage(s, o) == IF s = "pvc" THEN o.kind \in PVCKinds ELSE o.kind = s

Mine(i, o) == owner[o.stamp] = Label[i]

\* What a List with the checker's label selector returns for a stage.
Labelled(i, s) == {o \in objs : OfStage(s, o) /\ Mine(i, o)}

\* i's own object of a kind.
Own(i, kind) == [kind |-> kind, stamp |-> stamp[i]]

PCs == {"idle", "gcList", "gcDelete", "csiLimit", "scLimit", "csiCreate",
        "podLimit", "crd", "poolCreate", "podCreate", "poll", "measure",
        "connect", "podDelete", "poolDelete", "csiDelete", "record"}
Results == {"none", "Healthy", "Unhealthy", "Unknown", "Skipped"}

TypeOK ==
    /\ enabledCSIs \in CSIConfigs
    /\ objs \subseteq Objects
    /\ owner \in [Stamps -> {Label[i] : i \in Instances}]
    /\ leaving \subseteq objs
    /\ old \subseteq objs \ leaving
    /\ late \subseteq Objects /\ Cardinality(late) <= MaxLate
    /\ pc \in [Instances -> PCs]
    /\ time \in [Instances -> {"ample", "ending", "over"}]
    /\ stamp \in [Instances -> Stamps \cup {NoStamp}]
    /\ stage \in [Instances -> 1..Len(GcStages)]
    /\ todo \in [Instances -> SUBSET Objects]
    /\ k \in [Instances -> 1..(Len(CsiPlan) + 1)]
    /\ result \in [Instances -> Results]
    /\ failed \in [Instances -> BOOLEAN]

Init ==
    /\ enabledCSIs \in CSIConfigs
    /\ objs = {} /\ old = {} /\ leaving = {} /\ late = {}
    /\ owner \in {[t \in Stamps |-> Label[i]] : i \in Instances}
    /\ pc = [i \in Instances |-> "idle"]
    /\ time = [i \in Instances |-> "over"]
    /\ stamp = [i \in Instances |-> NoStamp]
    /\ stage = [i \in Instances |-> 1]
    /\ todo = [i \in Instances |-> {}]
    /\ k = [i \in Instances |-> 1]
    /\ result = [i \in Instances |-> "none"]
    /\ failed = [i \in Instances |-> FALSE]

-----------------------------------------------------------------------------
(* The API server's part of a call.                                        *)

\* Only StorageClasses go at once: Pods have a grace period, NodePools and
\* claims a finalizer. The age of what is leaving makes no difference.
Remove(o) ==
    /\ IF o.kind = "sc"
         THEN objs' = objs \ {o} /\ UNCHANGED leaving
         ELSE leaving' = leaving \cup ({o} \cap objs) /\ UNCHANGED objs
    /\ old' = old \ {o}
    /\ UNCHANGED <<owner, late>>

\* The context of i's run has not expired: calls on it are sent.
Alive(i) == time[i] # "over"

\* A create that answers an error may have been served, or may be served later.
LoseCreate(i, o) ==
    /\ \/ UNCHANGED <<objs, late>>
       \/ Alive(i) /\ objs' = objs \cup {o} /\ UNCHANGED late
       \/ /\ Alive(i)
          /\ Cardinality(late) < MaxLate
          /\ late' = late \cup {o}
          /\ UNCHANGED objs
    /\ UNCHANGED <<owner, old, leaving>>

\* A delete that answers an error may have been served.
LoseDelete(i, o) == UNCHANGED cluster \/ (Alive(i) /\ Remove(o))

Goto(i, step) == pc' = [pc EXCEPT ![i] = step]
Fail(i) == failed' = [failed EXCEPT ![i] = TRUE]
Return(i, r) == result' = [result EXCEPT ![i] = r]

\* check returns r: the deferred calls registered so far begin with `step`.
ReturnVia(i, step, r) ==
    /\ Goto(i, step)
    /\ Return(i, r)
    /\ k' = [k EXCEPT ![i] = 1]

-----------------------------------------------------------------------------
(* garbageCollect. Its errors are only logged.                             *)

StartRun(i) ==
    /\ pc[i] = "idle"
    /\ Goto(i, "gcList")
    /\ time' = [time EXCEPT ![i] = "ample"]
    /\ stage' = [stage EXCEPT ![i] = 1]
    /\ failed' = [failed EXCEPT ![i] = FALSE]
    /\ UNCHANGED <<cluster, stamp, todo, k, result>>

\* A new timestamp is unlike any in use.
Fresh(t) ==
    /\ \A o \in objs \cup late : o.stamp # t
    /\ \A j \in Instances : stamp[j] # t /\ \A o \in todo[j] : o.stamp # t

\* Mutant: one stage too many.
MutantNextStage(i) ==
    /\ stage' = [stage EXCEPT ![i] = @ + 1]
    /\ Goto(i, IF stage[i] <= Len(GcStages) THEN "gcList" ELSE "record")
    /\ UNCHANGED <<owner, stamp>>

\* The next stage; after the last one the run picks its timestamp. Bound: with
\* no timestamp left it ends here.
NextStage(i) ==
    IF stage[i] < Len(GcStages)
      THEN /\ stage' = [stage EXCEPT ![i] = @ + 1]
           /\ Goto(i, "gcList")
           /\ UNCHANGED <<owner, stamp>>
      ELSE /\ \/ \E t \in Stamps :
                    /\ Fresh(t)
                    /\ Goto(i, "csiLimit")
                    /\ stamp' = [stamp EXCEPT ![i] = t]
                    /\ owner' = [owner EXCEPT ![t] = Label[i]]
              \/ /\ ~\E t \in Stamps : Fresh(t)
                 /\ Goto(i, "record")
                 /\ UNCHANGED <<owner, stamp>>
           /\ UNCHANGED stage

\* NodePools are selected by the label's key alone, whatever its value.
GcList(i) ==
    /\ pc[i] = "gcList"
    /\ Alive(i)
    /\ todo' = [todo EXCEPT ![i] =
                  IF GcStages[stage[i]] = "pool" THEN {o \in objs : o.kind = "pool"}
                  ELSE Labelled(i, GcStages[stage[i]])]
    /\ Goto(i, "gcDelete")
    /\ UNCHANGED <<cluster, time, stamp, stage, k, result, failed>>

GcListFails(i) ==
    /\ pc[i] = "gcList"
    /\ NextStage(i)
    /\ Fail(i)
    /\ UNCHANGED <<objs, old, leaving, late, time, todo, k, result>>

\* Mutant: no age check.
MutantExpendable(i, o) == TRUE

\* NodePools are deleted at any age.
Expendable(i, o) == GcStages[stage[i]] = "pool" \/ o \in old

GcDelete(i, o) ==
    /\ pc[i] = "gcDelete"
    /\ o \in todo[i]
    /\ todo' = [todo EXCEPT ![i] = @ \ {o}]
    /\ IF Expendable(i, o)
         THEN \/ Alive(i) /\ Remove(o) /\ UNCHANGED failed
              \/ LoseDelete(i, o) /\ Fail(i)
         ELSE UNCHANGED <<cluster, failed>>
    /\ UNCHANGED <<pc, time, stamp, stage, k, result>>

GcDone(i) ==
    /\ pc[i] = "gcDelete"
    /\ todo[i] = {}
    /\ NextStage(i)
    /\ UNCHANGED <<objs, old, leaving, late, time, todo, k, result, failed>>

-----------------------------------------------------------------------------
(* The CSI resources. Until all are created nothing is deferred.           *)

\* A List of the limit checks fails.
LimitListFails(i, step) ==
    /\ ReturnVia(i, step, "Unknown")
    /\ Fail(i)
    /\ UNCHANGED <<cluster, time, stamp, gc>>

\* Mutant: the limit is off by one.
MutantLimitListOk(i, n, max, ok, full) ==
    /\ Alive(i)
    /\ IF n > max THEN ReturnVia(i, full, "Unknown")
                  ELSE Goto(i, ok) /\ UNCHANGED <<k, result>>
    /\ UNCHANGED <<cluster, time, stamp, gc, failed>>

\* A limit check finds n objects, and at most max - 1 are fine.
LimitListOk(i, n, max, ok, full) ==
    /\ Alive(i)
    /\ IF n >= max THEN ReturnVia(i, full, "Unknown")
                   ELSE Goto(i, ok) /\ UNCHANGED <<k, result>>
    /\ UNCHANGED <<cluster, time, stamp, gc, failed>>

\* Mutant: the limit of the claims is not checked.
MutantCheckCSILimit(i) ==
    /\ pc[i] = "csiLimit"
    /\ Goto(i, "csiCreate")
    /\ UNCHANGED <<cluster, time, stamp, gc, k, result, failed>>

\* checkCSIResourceLimit: the claims...
CheckCSILimit(i) ==
    /\ pc[i] = "csiLimit"
    /\ IF enabledCSIs = <<>>
         THEN /\ Goto(i, "csiCreate")
              /\ UNCHANGED <<cluster, time, stamp, gc, k, result, failed>>
         ELSE \/ LimitListFails(i, "record")
              \/ LimitListOk(i, Cardinality(Labelled(i, "pvc")),
                             MaxSyntheticPods * Len(enabledCSIs),
                             IF "azureFile" \in {enabledCSIs[n] : n \in DOMAIN enabledCSIs}
                               THEN "scLimit" ELSE "csiCreate",
                             "record")

\* ... and the StorageClasses.
CheckSCLimit(i) ==
    /\ pc[i] = "scLimit"
    /\ \/ LimitListFails(i, "record")
       \/ LimitListOk(i, Cardinality(Labelled(i, "sc")), MaxSyntheticPods,
                      "csiCreate", "record")

\* createCSIResources: the next one.
CreateCSI(i) ==
    /\ pc[i] = "csiCreate"
    /\ k[i] <= Len(CsiPlan)
    /\ LET o == Own(i, CsiPlan[k[i]]) IN
        \/ /\ Alive(i) /\ o \notin objs
           /\ objs' = objs \cup {o}
           /\ k' = [k EXCEPT ![i] = @ + 1]
           /\ UNCHANGED <<owner, old, leaving, late, pc, result, failed>>
        \/ /\ LoseCreate(i, o)
           /\ ReturnVia(i, "record", "Unknown")
           /\ Fail(i)
    /\ UNCHANGED <<time, stamp, gc>>

\* deleteCSIResources is deferred from here on.
CreatedCSI(i) ==
    /\ pc[i] = "csiCreate"
    /\ k[i] > Len(CsiPlan)
    /\ Goto(i, "podLimit")
    /\ UNCHANGED <<cluster, time, stamp, gc, k, result, failed>>

-----------------------------------------------------------------------------
(* The Pod and its NodePool.                                               *)

\* Mutant: the deletion of the CSI resources is deferred after the limit check.
MutantCheckPodLimit(i) ==
    /\ pc[i] = "podLimit"
    /\ \/ LimitListFails(i, "record")
       \/ LimitListOk(i, Cardinality(Labelled(i, "pod")), MaxSyntheticPods,
                      IF EnableNodeProvisioningTest THEN "crd" ELSE "podCreate",
                      "record")

CheckPodLimit(i) ==
    /\ pc[i] = "podLimit"
    /\ \/ LimitListFails(i, "csiDelete")
       \/ LimitListOk(i, Cardinality(Labelled(i, "pod")), MaxSyntheticPods,
                      IF EnableNodeProvisioningTest THEN "crd" ELSE "podCreate",
                      "csiDelete")

\* isKarpenterNodePoolCRDPresent: yes, no, or an error.
CheckCRD(i) ==
    /\ pc[i] = "crd"
    /\ \/ Alive(i) /\ Goto(i, "poolCreate") /\ UNCHANGED <<k, result, failed>>
       \/ Alive(i) /\ ReturnVia(i, "csiDelete", "Skipped") /\ UNCHANGED failed
       \/ ReturnVia(i, "csiDelete", "Unknown") /\ Fail(i)
    /\ UNCHANGED <<cluster, time, stamp, gc>>

\* A create of i: next, or the run returns r and only the CSI resources are
\* deleted.
Create(i, kind, next, r) ==
    /\ \/ /\ Alive(i)
          /\ objs' = objs \cup {Own(i, kind)}
          /\ Goto(i, next)
          /\ UNCHANGED <<owner, old, leaving, late, k, result, failed>>
       \/ /\ LoseCreate(i, Own(i, kind))
          /\ ReturnVia(i, "csiDelete", r)
          /\ Fail(i)
    /\ UNCHANGED <<time, stamp, gc>>

CreateNodePool(i) ==
    pc[i] = "poolCreate" /\ Create(i, "pool", "podCreate", "Unknown")

\* The deferred deletion of Pod and NodePool is not registered when this fails.
CreatePod(i) == pc[i] = "podCreate" /\ Create(i, "pod", "poll", "Unhealthy")

\* The Pod's container runs.
PollRunning(i) ==
    /\ pc[i] = "poll"
    /\ Alive(i) /\ Own(i, "pod") \in objs
    /\ Goto(i, "measure")
    /\ UNCHANGED <<cluster, time, stamp, gc, k, result, failed>>

\* Errors of the poll's Get are ignored: it ends with the context, which has
\* expired or, at shutdown, is cancelled.
PollExpires(i) ==
    /\ pc[i] = "poll"
    /\ ~Alive(i)
    /\ \E r \in {"Unhealthy", "Unknown"} : ReturnVia(i, "podDelete", r)
    /\ UNCHANGED <<cluster, time, stamp, gc, failed>>

\* The image pull events tell how long the startup took: too long, or not; or
\* there is none to read.
Measure(i) ==
    /\ pc[i] = "measure"
    /\ \/ Alive(i) /\ Goto(i, "connect") /\ UNCHANGED <<k, result, failed>>
       \/ Alive(i) /\ ReturnVia(i, "podDelete", "Unhealthy") /\ UNCHANGED failed
       \/ ReturnVia(i, "podDelete", "Unknown") /\ Fail(i)
    /\ UNCHANGED <<cluster, time, stamp, gc>>

\* The Pod is read for its IP and dialled.
Connect(i) ==
    /\ pc[i] = "connect"
    /\ \/ /\ Alive(i) /\ Own(i, "pod") \in objs
          /\ ReturnVia(i, "podDelete", "Healthy")
          /\ UNCHANGED failed
       \/ \E r \in {"Unknown", "Unhealthy"} :
            ReturnVia(i, "podDelete", r) /\ Fail(i)
    /\ UNCHANGED <<cluster, time, stamp, gc>>

-----------------------------------------------------------------------------
(* The deferred deletions, on the run's context.                           *)

\* Mutant: the Pod is deleted by label.
MutantDeleteByLabel(i, kind, next) ==
    /\ \E o \in {Own(i, kind)} \cup Labelled(i, kind) :
        \/ Alive(i) /\ Remove(o) /\ UNCHANGED failed
        \/ LoseDelete(i, o) /\ Fail(i)
    /\ Goto(i, next)
    /\ UNCHANGED <<time, stamp, gc, k, result>>

\* A delete of i's object, whose error is only logged.
Delete(i, kind, next) ==
    /\ \/ Alive(i) /\ Remove(Own(i, kind)) /\ UNCHANGED failed
       \/ LoseDelete(i, Own(i, kind)) /\ Fail(i)
    /\ Goto(i, next)
    /\ UNCHANGED <<time, stamp, gc, k, result>>

\* Mutant: the NodePool is left to garbage collection.
MutantDeletePod(i) == pc[i] = "podDelete" /\ Delete(i, "pod", "csiDelete")

DeletePod(i) ==
    /\ pc[i] = "podDelete"
    /\ Delete(i, "pod", IF EnableNodeProvisioningTest THEN "poolDelete"
                                                      ELSE "csiDelete")

DeleteNodePool(i) ==
    pc[i] = "poolDelete" /\ Delete(i, "pool", "csiDelete")

\* Mutant: a deletion that fails is tried again.
MutantDeleteCSI(i) ==
    /\ pc[i] = "csiDelete"
    /\ k[i] <= Len(CsiPlan)
    /\ LET o == Own(i, CsiPlan[k[i]]) IN
        \/ /\ Alive(i) /\ Remove(o)
           /\ k' = [k EXCEPT ![i] = @ + 1]
           /\ UNCHANGED <<pc, failed>>
        \/ LoseDelete(i, o) /\ Fail(i) /\ UNCHANGED <<pc, k>>
    /\ UNCHANGED <<time, stamp, gc, result>>

\* deleteCSIResources: the next one; the first error ends it.
DeleteCSI(i) ==
    /\ pc[i] = "csiDelete"
    /\ k[i] <= Len(CsiPlan)
    /\ LET o == Own(i, CsiPlan[k[i]]) IN
        \/ /\ Alive(i) /\ Remove(o)
           /\ k' = [k EXCEPT ![i] = @ + 1]
           /\ UNCHANGED <<pc, failed>>
        \/ LoseDelete(i, o) /\ Goto(i, "record") /\ Fail(i) /\ UNCHANGED k
    /\ UNCHANGED <<time, stamp, gc, result>>

DeletedCSI(i) ==
    /\ pc[i] = "csiDelete"
    /\ k[i] > Len(CsiPlan)
    /\ Goto(i, "record")
    /\ UNCHANGED <<cluster, time, stamp, gc, k, result, failed>>

\* i's run is over.
Reset(i) ==
    /\ Goto(i, "idle")
    /\ time' = [time EXCEPT ![i] = "over"]
    /\ stamp' = [stamp EXCEPT ![i] = NoStamp]
    /\ todo' = [todo EXCEPT ![i] = {}]
    /\ stage' = [stage EXCEPT ![i] = 1]
    /\ k' = [k EXCEPT ![i] = 1]
    /\ failed' = [failed EXCEPT ![i] = FALSE]
    /\ Return(i, "none")

\* RecordResult counts the result.
Record(i) == pc[i] = "record" /\ Reset(i) /\ UNCHANGED cluster

-----------------------------------------------------------------------------
(* The cluster, the clock and the process.                                 *)

\* The run's time passes, and its context expires.
Expire(i) ==
    /\ GcInTime => pc[i] \notin {"gcList", "gcDelete"}
    /\ \/ /\ time[i] = "ample"
          /\ time' = [time EXCEPT ![i] = "ending"]
          /\ UNCHANGED failed
       \/ /\ time[i] = "ending"
          /\ time' = [time EXCEPT ![i] = "over"]
          /\ Fail(i)
    /\ UNCHANGED <<cluster, pc, stamp, gc, k, result>>

\* o becomes older than the timeout: not while its run's time is ample.
GrowOld(o) ==
    /\ o \in objs \ (old \cup leaving)
    /\ \A i \in Instances : stamp[i] = o.stamp => time[i] # "ample"
    /\ old' = old \cup {o}
    /\ UNCHANGED <<objs, owner, leaving, late, pc, time, stamp, gc, k, result,
                   failed>>

\* o's grace period or finalizer ends; a claim stays while a Pod uses it.
Gone(o) ==
    /\ o \in leaving
    /\ o.kind \in PVCKinds => [kind |-> "pod", stamp |-> o.stamp] \notin objs
    /\ objs' = objs \ {o}
    /\ leaving' = leaving \ {o}
    /\ UNCHANGED <<owner, old, late, pc, time, stamp, gc, k, result, failed>>

\* A create no client waits for is served after all, or lost.
Land(o) ==
    /\ o \in late
    /\ late' = late \ {o}
    /\ objs' \in {objs, objs \cup {o}}
    /\ UNCHANGED <<owner, old, leaving, pc, time, stamp, gc, k, result, failed>>

\* The process dies; its deferred calls do not run. A create may be under way.
Crash(i) ==
    /\ CanCrash /\ pc[i] # "idle"
    /\ Reset(i)
    /\ \/ UNCHANGED cluster
       \/ /\ pc[i] = "csiCreate" /\ k[i] <= Len(CsiPlan)
          /\ LoseCreate(i, Own(i, CsiPlan[k[i]]))
       \/ pc[i] = "poolCreate" /\ LoseCreate(i, Own(i, "pool"))
       \/ pc[i] = "podCreate" /\ LoseCreate(i, Own(i, "pod"))

-----------------------------------------------------------------------------

RunStep(i) ==
    \/ StartRun(i)
    \/ GcListFails(i) \/ (\E o \in Objects : GcDelete(i, o)) \/ GcDone(i)
    \/ CheckCSILimit(i) \/ CheckSCLimit(i) \/ CreateCSI(i) \/ CreatedCSI(i)
    \/ CheckPodLimit(i) \/ CheckCRD(i) \/ CreateNodePool(i) \/ CreatePod(i)
    \/ PollRunning(i) \/ PollExpires(i) \/ Measure(i) \/ Connect(i)
    \/ DeletePod(i) \/ DeleteNodePool(i) \/ DeleteCSI(i) \/ DeletedCSI(i)
    \/ Record(i)

Next ==
    /\ UNCHANGED enabledCSIs
    /\ \/ \E i \in Instances :
            RunStep(i) \/ GcList(i) \/ Expire(i) \/ Crash(i)
       \/ \E o \in Objects : GrowOld(o) \/ Gone(o) \/ Land(o)

Spec == Init /\ [][Next]_vars

-----------------------------------------------------------------------------
(* Fairness. Processes are scheduled, contexts expire, objects age, grace  *)
(* periods end; and the API server does not fail for ever: each list of    *)
(* garbage collection, and its delete of a given object, are served again  *)
(* and again.                                                              *)

FairSpec ==
    /\ Spec
    /\ \A i \in Instances :
        /\ WF_state(RunStep(i))
        /\ WF_state(Expire(i))
        /\ \A s \in 1..Len(GcStages) : SF_state(GcList(i) /\ stage[i] = s)
        /\ \A o \in Objects :
            SF_state(GcDelete(i, o) /\ <<objs, leaving>>' # <<objs, leaving>>)
    /\ \A o \in Objects : WF_state(GrowOld(o)) /\ WF_state(Gone(o))

-----------------------------------------------------------------------------
(* Safety.                                                                 *)

\* The kinds of the objects i has created and not begun to delete.
Made(i) ==
    CASE pc[i] = "csiCreate" -> {CsiPlan[n] : n \in 1..(k[i] - 1)}
      [] pc[i] \in {"podLimit", "crd", "poolCreate", "podCreate", "poolDelete"} ->
            {CsiPlan[n] : n \in 1..Len(CsiPlan)}
      [] pc[i] \in {"poll", "measure", "connect", "podDelete"} ->
            {CsiPlan[n] : n \in 1..Len(CsiPlan)} \cup {"pod"}
      [] pc[i] = "csiDelete" -> {CsiPlan[n] : n \in k[i]..Len(CsiPlan)}
      [] OTHER -> {}

\* No garbage collection deletes the Pod, the claims or the StorageClass of a
\* run whose context is in time, by a second or more.
OwnObjectsSurvive ==
    \A i \in Instances : time[i] = "ample" =>
        \A kind \in Made(i) : Own(i, kind) \in objs \ leaving

Sharing(l) == {i \in Instances : Label[i] = l}
Stored(l, kinds) == {o \in objs : o.kind \in kinds /\ owner[o.stamp] = l}

\* What the limits guarantee for a checker name: instances of that name that
\* overlap can each pass a check on the same list, creates in flight are in no
\* list, and one check of the claims is for all of a run's.
ResourceBounds ==
    \A l \in {Label[i] : i \in Instances} :
        LET share == Cardinality(Sharing(l))
            csis == Len(enabledCSIs)
        IN  /\ Cardinality(Stored(l, {"pod"})) < MaxSyntheticPods + share + MaxLate
            /\ Cardinality(Stored(l, {"sc"})) < MaxSyntheticPods + share + MaxLate
            /\ csis > 0 => Cardinality(Stored(l, PVCKinds))
                             < (MaxSyntheticPods + share) * csis + MaxLate

\* A run none of whose calls failed and whose context did not expire leaves
\* nothing behind, whichever way it returned.
CleanRunLeavesNothing ==
    \A i \in Instances : pc[i] = "record" /\ ~failed[i] =>
        \A o \in (objs \ leaving) \cup late : o.stamp # stamp[i]

\* The steps i's run can still take itself, if nobody takes it down: for each stage
\* of garbage collection one for each object there may be and two more, then twice
\* the plan, and one for each other call.
StagesLeft(s) == (Len(GcStages) - s) * (Cardinality(Objects) + 2)
StepsLeft(i) ==
    LET plan == Len(CsiPlan)
        stages == StagesLeft(stage[i])
    IN  CASE pc[i] = "gcList" -> stages + Cardinality(Objects) + 2 * plan + 16
          [] pc[i] = "gcDelete" -> stages + Cardinality(todo[i]) + 2 * plan + 15
          [] pc[i] = "csiLimit" -> 2 * plan + 14
          [] pc[i] = "scLimit" -> 2 * plan + 13
          [] pc[i] = "csiCreate" -> 2 * plan + 13 - k[i]
          [] pc[i] = "podLimit" -> plan + 11
          [] pc[i] = "crd" -> plan + 10
          [] pc[i] = "poolCreate" -> plan + 9
          [] pc[i] = "podCreate" -> plan + 8
          [] pc[i] = "poll" -> plan + 7
          [] pc[i] = "measure" -> plan + 6
          [] pc[i] = "connect" -> plan + 5
          [] pc[i] = "podDelete" -> plan + 4
          [] pc[i] = "poolDelete" -> plan + 3
          [] pc[i] = "csiDelete" -> plan + 3 - k[i]
          [] pc[i] = "record" -> 1
          [] OTHER -> 0

\* A run comes closer to its end with each step of its own, whatever fails and
\* however many objects are left over; nothing that others do puts it further away,
\* and no step gives its context more time.
ComesCloser(i) ==
    /\ StepsLeft(i)' <= StepsLeft(i)
    /\ RunStep(i) \/ GcList(i) => StepsLeft(i)' < StepsLeft(i)
    /\ time'[i] \in CASE time[i] = "ample" -> {"ample", "ending", "over"}
                      [] time[i] = "ending" -> {"ending", "over"}
                      [] time[i] = "over" -> {"over"}

\* So does every run, in every step: podstartup.go's check ends, with its deferred
\* calls, after a number of calls known when it begins.
RunsShrink == [][\A i \in Instances : pc[i] # "idle" => ComesCloser(i)]_vars

\* As podstartup.go says of garbage collection, "leftover" from "previous runs":
\* the NodePool of a run whose time is ample is not deleted.
NodePoolSurvives ==
    \A i \in Instances :
        /\ time[i] = "ample" /\ EnableNodeProvisioningTest
        /\ pc[i] \in {"podCreate", "poll", "measure", "connect", "podDelete",
                      "poolDelete"}
        => Own(i, "pool") \in objs \ leaving

-----------------------------------------------------------------------------
(* The Pods, claims of a type and StorageClasses of a checker name each    *)
(* implement an ObjectPool. NodePools do not: see NodePoolSurvives.        *)

Labels == {Label[i] : i \in Instances}
PoolKinds(csis) == {"pod"} \cup {Plans[csis][n] : n \in DOMAIN Plans[csis]}

\* An object is held from its create's answer until its deletion begins, if the
\* run's time is ample so long, and until the run gives up on it.
Held(l, kind) ==
    {Own(i, kind) : i \in {j \in Sharing(l) : time[j] = "ample" /\ kind \in Made(j)}}

Pool(l, kind, csis) == INSTANCE ObjectPool WITH
    Names <- {o \in Objects : o.kind = kind},
    Cap <- (MaxSyntheticPods + Cardinality(Sharing(l)))
            * (IF kind \in PVCKinds THEN Len(csis) ELSE 1) + MaxLate - 1,
    stored <- Stored(l, {kind}) \ leaving,
    held <- Held(l, kind)

\* A step does at most one thing to one object of each pool: a run creates its
\* own and deletes its own, one whose run has given up or is short of time may
\* appear or be swept by anybody, and there is room for each that is created.
ImplementsPools ==
    /\ \A l \in Labels, csis \in CSIConfigs : \A kind \in PoolKinds(csis) :
            Pool(l, kind, csis)!PoolInit
    /\ [][\A l \in Labels, csis \in CSIConfigs : enabledCSIs = csis =>
            \A kind \in PoolKinds(csis) :
                Pool(l, kind, csis)!PoolNext \/ UNCHANGED Pool(l, kind, csis)!poolVars]_vars

-----------------------------------------------------------------------------
(* Liveness.                                                               *)

\* No object stays for ever.
EventuallyGone == \A o \in Objects : o \in objs ~> o \notin objs

=============================================================================
