-------------------------- MODULE APIServerChecker --------------------------
(***************************************************************************)
(* The API server checker of pkg/checker/apiserver/api_server.go: every    *)
(* run collects the ConfigMaps earlier runs left behind, checks how many   *)
(* exist, creates one, reads it and deletes it, all under the context the  *)
(* scheduler gave the run.                                                 *)
(*                                                                         *)
(* Instances are the processes that run the same configured checker: the   *)
(* Deployment keeps one, and two while an update rolls or while a killed   *)
(* Pod is replaced. All of them select ConfigMaps by the same label.       *)
(*                                                                         *)
(* A mutating call is a request the server may serve at any moment while   *)
(* the client waits. A client stops waiting when its context expires, when *)
(* the connection breaks or when its process dies; the request may then    *)
(* still reach the server: a create given up on is in `landing`, a delete  *)
(* given up on in `doomed`. A call on an expired context sends nothing.    *)
(*                                                                         *)
(* Time is a count of ticks. Only ages and remaining budgets are kept, and *)
(* they saturate, so nothing bounds how long the checker runs. Ages are as *)
(* the code computes them, time.Since(CreationTimestamp): the timestamp is *)
(* rounded down to Granule ticks, so an object may look up to Granule - 1  *)
(* ticks older than it is.                                                 *)
(***************************************************************************)
EXTENDS Integers, FiniteSets

CONSTANTS
    Instances,      \* processes running this checker
    Names,          \* names a ConfigMap may get
    NoName,         \* no ConfigMap
    MaxObjects,     \* config: maxObjects
    Timeout,        \* config: timeout, of a run and of garbage collection
    MutateTimeout,  \* config: mutateTimeout
    ReadTimeout,    \* config: readTimeout
    Granule,        \* precision of a CreationTimestamp, in ticks
    MaxLanding,     \* bound: creates in flight that no client waits for
    MaxCrashes      \* bound: process deaths

ASSUME InstancesAssumption == IsFiniteSet(Instances) /\ Instances # {}
ASSUME NamesAssumption == IsFiniteSet(Names) /\ NoName \notin Names
\* APIServerConfig.validate and CheckerConfig.validate: the checker's timeout
\* is positive and above each call's. The call timeouts may be zero.
ASSUME ConfigAssumption ==
    /\ MaxObjects \in Nat \ {0}
    /\ Timeout \in Nat \ {0}
    /\ MutateTimeout \in Nat /\ MutateTimeout < Timeout
    /\ ReadTimeout \in Nat /\ ReadTimeout < Timeout
ASSUME EnvironmentAssumption ==
    /\ Granule \in Nat \ {0}
    /\ MaxLanding \in Nat
    /\ MaxCrashes \in Nat

VARIABLES
    cms,        \* names of the ConfigMaps the server stores
    age,        \* how old each name's ConfigMap looks to garbageCollect
    landing,    \* creates in flight that no client waits for
    doomed,     \* deletes in flight that no client waits for
    pc,         \* where each instance's check(ctx) stands
    left,       \* ticks until the run's context expires
    callLeft,   \* ticks until the current call's context expires
    reply,      \* the state of the current mutating call
    gcTodo,     \* garbageCollect: listed ConfigMaps still to look at
    cm,         \* the ConfigMap the current call is about
    result,     \* what check(ctx) returns
    crashes     \* process deaths so far

cluster == <<cms, age, landing, doomed>>
run == <<pc, left, callLeft, reply, gcTodo, cm, result>>
vars == <<cms, age, landing, doomed, pc, left, callLeft, reply, gcTodo, cm,
          result, crashes>>

-----------------------------------------------------------------------------

Least(a, b) == IF a <= b THEN a ELSE b

\* Ages only matter up to the first tick past the timeout.
OldAge == Timeout + 1

PCs == {"down", "idle", "gcList", "gcNext", "gcDelete", "limit", "room",
        "create", "get", "delete", "deferred", "record"}
DeletePCs == {"gcDelete", "delete", "deferred"}
Replies == {"unsent", "none", "ok", "notFound"}
Errors == {"Error", "Timeout"}
Results == {"none", "Healthy", "Unknown", "APIServerCreateError",
            "APIServerCreateTimeout", "APIServerGetError", "APIServerGetTimeout",
            "APIServerDeleteError", "APIServerDeleteTimeout"}

\* Mutant: the error instead of its code.
MutantRawCode(e) == e

\* errors.Is(err, context.DeadlineExceeded) decides between the two codes.
CreateCode(e) == IF e = "Timeout" THEN "APIServerCreateTimeout"
                                  ELSE "APIServerCreateError"
GetCode(e) == IF e = "Timeout" THEN "APIServerGetTimeout"
                               ELSE "APIServerGetError"
DeleteCode(e) == IF e = "Timeout" THEN "APIServerDeleteTimeout"
                                  ELSE "APIServerDeleteError"

\* n is the name of a ConfigMap, or of one some garbage collection has listed.
Known(n) == n \in cms \/ \E i \in Instances : n \in gcTodo[i]

\* The names end in time.Now().UnixNano(): a new one is unlike any in use.
Fresh(n) ==
    /\ n \notin cms \cup landing \cup doomed
    /\ \A j \in Instances : n # cm[j] /\ n \notin gcTodo[j]

TypeOK ==
    /\ cms \subseteq Names
    /\ age \in [Names -> 0..OldAge]
    /\ landing \subseteq Names
    /\ doomed \subseteq Names
    /\ pc \in [Instances -> PCs]
    /\ left \in [Instances -> 0..Timeout]
    /\ callLeft \in [Instances -> 0..Timeout]
    /\ reply \in [Instances -> Replies]
    /\ gcTodo \in [Instances -> SUBSET Names]
    /\ cm \in [Instances -> Names \cup {NoName}]
    /\ result \in [Instances -> Results]
    /\ crashes \in 0..MaxCrashes
    /\ \A i \in Instances : pc[i] \in {"create", "get"} \cup DeletePCs => cm[i] \in Names

Init ==
    /\ cms = {}
    /\ age = [n \in Names |-> OldAge]
    /\ landing = {}
    /\ doomed = {}
    /\ pc = [i \in Instances |-> "down"]
    /\ left = [i \in Instances |-> 0]
    /\ callLeft = [i \in Instances |-> 0]
    /\ reply = [i \in Instances |-> "none"]
    /\ gcTodo = [i \in Instances |-> {}]
    /\ cm = [i \in Instances |-> NoName]
    /\ result = [i \in Instances |-> "none"]
    /\ crashes = 0

-----------------------------------------------------------------------------
(* Calls.                                                                  *)

\* i starts a mutating call about n at step `step`, on a context with `budget`
\* ticks left: nothing is sent on an expired context.
Call(i, step, n, budget) ==
    /\ pc' = [pc EXCEPT ![i] = step]
    /\ cm' = [cm EXCEPT ![i] = n]
    /\ callLeft' = [callLeft EXCEPT ![i] = budget]
    /\ reply' = [reply EXCEPT ![i] = IF budget = 0 THEN "unsent" ELSE "none"]

\* i leaves a call, and any request of it still in flight, for step `step`.
Leave(i, step) ==
    /\ pc' = [pc EXCEPT ![i] = step]
    /\ reply' = [reply EXCEPT ![i] = "none"]
    /\ callLeft' = [callLeft EXCEPT ![i] = 0]

\* i's current call can fail this way now: with a deadline error once its
\* context expired, with another one at any time the request is out.
Fails(i, e) ==
    \/ e = "Timeout" /\ callLeft[i] = 0
    \/ e = "Error" /\ reply[i] # "unsent"

\* A create i gives up on may be lost, or be served later.
GiveUpCreate(i) ==
    /\ \/ landing' = landing
       \/ /\ reply[i] = "none"
          /\ Cardinality(landing) < MaxLanding
          /\ landing' = landing \cup {cm[i]}
    /\ UNCHANGED doomed

\* A delete i gives up on may be lost, or be served later. One of a ConfigMap
\* that is gone already can do nothing more: its name never comes back.
GiveUpDelete(i) ==
    /\ \/ doomed' = doomed
       \/ reply[i] = "none" /\ doomed' = doomed \cup ({cm[i]} \cap cms)
    /\ UNCHANGED landing

\* The run starts the deferred Delete, on the run's context, and will return r.
Defer(i, r) ==
    /\ Call(i, "deferred", cm[i], left[i])
    /\ result' = [result EXCEPT ![i] = r]

-----------------------------------------------------------------------------
(* garbageCollect.                                                         *)

\* The scheduler runs the check with a fresh context.
StartRun(i) ==
    /\ pc[i] = "idle"
    /\ pc' = [pc EXCEPT ![i] = "gcList"]
    /\ left' = [left EXCEPT ![i] = Timeout]
    /\ UNCHANGED <<cluster, callLeft, reply, gcTodo, cm, result, crashes>>

GcListOk(i) ==
    /\ pc[i] = "gcList"
    /\ left[i] > 0
    /\ pc' = [pc EXCEPT ![i] = "gcNext"]
    /\ gcTodo' = [gcTodo EXCEPT ![i] = cms]
    /\ UNCHANGED <<cluster, left, callLeft, reply, cm, result, crashes>>

\* The error is only logged: the run goes on.
GcListFails(i, e) ==
    /\ pc[i] = "gcList"
    /\ e = "Timeout" => left[i] = 0
    /\ pc' = [pc EXCEPT ![i] = "limit"]
    /\ UNCHANGED <<cluster, left, callLeft, reply, gcTodo, cm, result, crashes>>

\* Mutant: the age is compared with the timeout of a call, not of a run.
MutantGcNextCallTimeout(i, n) ==
    /\ pc[i] = "gcNext"
    /\ n \in gcTodo[i]
    /\ gcTodo' = [gcTodo EXCEPT ![i] = @ \ {n}]
    /\ IF age[n] > MutateTimeout
         THEN Call(i, "gcDelete", n, left[i])
         ELSE UNCHANGED <<pc, cm, callLeft, reply>>
    /\ UNCHANGED <<cluster, left, result, crashes>>

\* Mutant: the age is compared the wrong way round.
MutantGcNextYoung(i, n) ==
    /\ pc[i] = "gcNext"
    /\ n \in gcTodo[i]
    /\ gcTodo' = [gcTodo EXCEPT ![i] = @ \ {n}]
    /\ IF age[n] < Timeout
         THEN Call(i, "gcDelete", n, left[i])
         ELSE UNCHANGED <<pc, cm, callLeft, reply>>
    /\ UNCHANGED <<cluster, left, result, crashes>>

\* Deletes the next listed ConfigMap if it looks older than the timeout.
GcNext(i, n) ==
    /\ pc[i] = "gcNext"
    /\ n \in gcTodo[i]
    /\ gcTodo' = [gcTodo EXCEPT ![i] = @ \ {n}]
    /\ IF age[n] > Timeout
         THEN Call(i, "gcDelete", n, left[i])
         ELSE UNCHANGED <<pc, cm, callLeft, reply>>
    /\ UNCHANGED <<cluster, left, result, crashes>>

GcDone(i) ==
    /\ pc[i] = "gcNext"
    /\ gcTodo[i] = {}
    /\ pc' = [pc EXCEPT ![i] = "limit"]
    /\ UNCHANGED <<cluster, left, callLeft, reply, gcTodo, cm, result, crashes>>

\* Not found is as good as deleted.
GcDeleteReturns(i) ==
    /\ pc[i] = "gcDelete"
    /\ reply[i] \in {"ok", "notFound"}
    /\ Leave(i, "gcNext")
    /\ cm' = [cm EXCEPT ![i] = NoName]
    /\ UNCHANGED <<cluster, left, gcTodo, result, crashes>>

\* Mutant: a failed delete is tried again.
MutantGcDeleteFailsRetry(i, e) ==
    /\ pc[i] = "gcDelete"
    /\ Fails(i, e)
    /\ GiveUpDelete(i)
    /\ Call(i, "gcDelete", cm[i], left[i])
    /\ UNCHANGED <<cms, age, left, gcTodo, result, crashes>>

\* The error is collected and the loop goes on.
GcDeleteFails(i, e) ==
    /\ pc[i] = "gcDelete"
    /\ Fails(i, e)
    /\ GiveUpDelete(i)
    /\ Leave(i, "gcNext")
    /\ cm' = [cm EXCEPT ![i] = NoName]
    /\ UNCHANGED <<cms, age, left, gcTodo, result, crashes>>

-----------------------------------------------------------------------------
(* The check proper.                                                       *)

\* A failed List, or a List that shows the limit reached, ends the run with an
\* error.
LimitFails(i, e) ==
    /\ pc[i] = "limit"
    /\ \/ e = "Timeout" /\ left[i] = 0
       \/ e = "Error"
    /\ pc' = [pc EXCEPT ![i] = "record"]
    /\ result' = [result EXCEPT ![i] = "Unknown"]
    /\ UNCHANGED <<cluster, left, callLeft, reply, gcTodo, cm, crashes>>

LimitReached(i) ==
    /\ pc[i] = "limit"
    /\ left[i] > 0
    /\ Cardinality(cms) >= MaxObjects
    /\ pc' = [pc EXCEPT ![i] = "record"]
    /\ result' = [result EXCEPT ![i] = "Unknown"]
    /\ UNCHANGED <<cluster, left, callLeft, reply, gcTodo, cm, crashes>>

\* Mutant: the limit is off by one.
MutantLimitOkOffByOne(i) ==
    /\ pc[i] = "limit"
    /\ left[i] > 0
    /\ Cardinality(cms) <= MaxObjects
    /\ pc' = [pc EXCEPT ![i] = "room"]
    /\ UNCHANGED <<cluster, left, callLeft, reply, gcTodo, cm, result, crashes>>

LimitOk(i) ==
    /\ pc[i] = "limit"
    /\ left[i] > 0
    /\ Cardinality(cms) < MaxObjects
    /\ pc' = [pc EXCEPT ![i] = "room"]
    /\ UNCHANGED <<cluster, left, callLeft, reply, gcTodo, cm, result, crashes>>

\* The List showed room: Create is called, on createCtx.
StartCreate(i, n) ==
    /\ pc[i] = "room"
    /\ Fresh(n)
    /\ Call(i, "create", n, Least(left[i], MutateTimeout))
    /\ UNCHANGED <<cluster, left, gcTodo, result, crashes>>

\* Get is called, on getCtx.
CreateReturns(i) ==
    /\ pc[i] = "create"
    /\ reply[i] = "ok"
    /\ Call(i, "get", cm[i], Least(left[i], ReadTimeout))
    /\ UNCHANGED <<cluster, left, gcTodo, result, crashes>>

\* Nothing is deferred yet: whatever the server did with the request stays.
CreateFails(i, e) ==
    /\ pc[i] = "create"
    /\ Fails(i, e)
    /\ GiveUpCreate(i)
    /\ Leave(i, "record")
    /\ result' = [result EXCEPT ![i] = CreateCode(e)]
    /\ UNCHANGED <<cms, age, left, gcTodo, cm, crashes>>

\* Mutant: the deferred Delete is trusted to delete the ConfigMap.
MutantGetReturnsNoDelete(i) ==
    /\ pc[i] = "get"
    /\ callLeft[i] > 0
    /\ cm[i] \in cms
    /\ Defer(i, "Healthy")
    /\ UNCHANGED <<cluster, left, gcTodo, crashes>>

\* Delete is called, on deleteCtx.
GetReturns(i) ==
    /\ pc[i] = "get"
    /\ callLeft[i] > 0
    /\ cm[i] \in cms
    /\ Call(i, "delete", cm[i], Least(left[i], MutateTimeout))
    /\ UNCHANGED <<cluster, left, gcTodo, result, crashes>>

GetNotFound(i) ==
    /\ pc[i] = "get"
    /\ callLeft[i] > 0
    /\ cm[i] \notin cms
    /\ Defer(i, "APIServerGetError")
    /\ UNCHANGED <<cluster, left, gcTodo, crashes>>

GetFails(i, e) ==
    /\ pc[i] = "get"
    /\ Fails(i, e)
    /\ Defer(i, GetCode(e))
    /\ UNCHANGED <<cluster, left, gcTodo, crashes>>

\* Unlike in garbageCollect, not found is an error here.
DeleteReturns(i) ==
    /\ pc[i] = "delete"
    /\ reply[i] \in {"ok", "notFound"}
    /\ Defer(i, IF reply[i] = "ok" THEN "Healthy" ELSE "APIServerDeleteError")
    /\ UNCHANGED <<cluster, left, gcTodo, crashes>>

DeleteFails(i, e) ==
    /\ pc[i] = "delete"
    /\ Fails(i, e)
    /\ GiveUpDelete(i)
    /\ Defer(i, DeleteCode(e))
    /\ UNCHANGED <<cms, age, left, gcTodo, crashes>>

DeferredReturns(i) ==
    /\ pc[i] = "deferred"
    /\ reply[i] \in {"ok", "notFound"}
    /\ Leave(i, "record")
    /\ UNCHANGED <<cluster, left, gcTodo, cm, result, crashes>>

\* The error is only logged.
DeferredFails(i, e) ==
    /\ pc[i] = "deferred"
    /\ Fails(i, e)
    /\ GiveUpDelete(i)
    /\ Leave(i, "record")
    /\ UNCHANGED <<cms, age, left, gcTodo, cm, result, crashes>>

\* Run: RecordResult counts the result, and the run is over.
Record(i) ==
    /\ pc[i] = "record"
    /\ pc' = [pc EXCEPT ![i] = "idle"]
    /\ left' = [left EXCEPT ![i] = 0]
    /\ cm' = [cm EXCEPT ![i] = NoName]
    /\ result' = [result EXCEPT ![i] = "none"]
    /\ UNCHANGED <<cluster, callLeft, reply, gcTodo, crashes>>

-----------------------------------------------------------------------------
(* The API server, the clock and the processes.                            *)

\* n is stored at this moment, its timestamp rounded down to the granule.
Store(n) ==
    /\ cms' = cms \cup {n}
    /\ \E a \in 0..Least(Granule - 1, OldAge) : age' = [age EXCEPT ![n] = a]

ServeCreate(i) ==
    /\ pc[i] = "create"
    /\ reply[i] = "none"
    /\ Store(cm[i])
    /\ reply' = [reply EXCEPT ![i] = "ok"]
    /\ UNCHANGED <<landing, doomed, pc, left, callLeft, gcTodo, cm, result,
                   crashes>>

ServeDelete(i) ==
    /\ pc[i] \in DeletePCs
    /\ reply[i] = "none"
    /\ cms' = cms \ {cm[i]}
    /\ doomed' = doomed \ {cm[i]}
    /\ reply' = [reply EXCEPT ![i] = IF cm[i] \in cms THEN "ok" ELSE "notFound"]
    /\ UNCHANGED <<age, landing, pc, left, callLeft, gcTodo, cm, result,
                   crashes>>

\* A create no client waits for is served after all, or lost.
Land(n) ==
    /\ n \in landing
    /\ landing' = landing \ {n}
    /\ Store(n) \/ UNCHANGED <<cms, age>>
    /\ UNCHANGED <<doomed, run, crashes>>

\* A delete no client waits for is served after all, or lost.
Doom(n) ==
    /\ n \in doomed
    /\ doomed' = doomed \ {n}
    /\ cms' \in {cms, cms \ {n}}
    /\ UNCHANGED <<age, landing, run, crashes>>

Tick ==
    /\ age' = [n \in Names |-> IF Known(n) THEN Least(age[n] + 1, OldAge)
                                            ELSE OldAge]
    /\ left' = [i \in Instances |-> IF left[i] > 0 THEN left[i] - 1 ELSE 0]
    /\ callLeft' = [i \in Instances |->
                      IF callLeft[i] > 0 THEN callLeft[i] - 1 ELSE 0]
    /\ UNCHANGED <<cms, landing, doomed, pc, reply, gcTodo, cm, result, crashes>>

\* The process dies: killed, or returned from main after a signal, which waits
\* for no run. Its deferred calls do not run.
Crash(i) ==
    /\ pc[i] # "down"
    /\ crashes < MaxCrashes
    /\ crashes' = crashes + 1
    /\ \/ pc[i] = "create" /\ GiveUpCreate(i)
       \/ pc[i] \in DeletePCs /\ GiveUpDelete(i)
       \/ pc[i] \notin {"create"} \cup DeletePCs /\ UNCHANGED <<landing, doomed>>
    /\ Leave(i, "down")
    /\ left' = [left EXCEPT ![i] = 0]
    /\ gcTodo' = [gcTodo EXCEPT ![i] = {}]
    /\ cm' = [cm EXCEPT ![i] = NoName]
    /\ result' = [result EXCEPT ![i] = "none"]
    /\ UNCHANGED <<cms, age>>

Restart(i) ==
    /\ pc[i] = "down"
    /\ pc' = [pc EXCEPT ![i] = "idle"]
    /\ UNCHANGED <<cluster, left, callLeft, reply, gcTodo, cm, result, crashes>>

-----------------------------------------------------------------------------

\* A call of i fails with e.
CallFails(i, e) ==
    \/ GcListFails(i, e)
    \/ GcDeleteFails(i, e)
    \/ LimitFails(i, e)
    \/ CreateFails(i, e)
    \/ GetFails(i, e)
    \/ DeleteFails(i, e)
    \/ DeferredFails(i, e)

\* A step of i that waits for nobody, or takes an answer that is there.
Proceed(i) ==
    \/ StartRun(i)
    \/ \E n \in Names : GcNext(i, n)
    \/ GcDone(i)
    \/ GcDeleteReturns(i)
    \/ LimitReached(i)
    \/ LimitOk(i)
    \/ \E n \in Names : StartCreate(i, n)
    \/ CreateReturns(i)
    \/ GetReturns(i)
    \/ GetNotFound(i)
    \/ DeleteReturns(i)
    \/ DeferredReturns(i)
    \/ Record(i)

Next ==
    \/ \E i \in Instances :
        \/ Proceed(i)
        \/ GcListOk(i)
        \/ \E e \in Errors : CallFails(i, e)
        \/ ServeCreate(i)
        \/ ServeDelete(i)
        \/ Crash(i)
        \/ Restart(i)
    \/ \E n \in Names : Land(n) \/ Doom(n)
    \/ Tick

Spec == Init /\ [][Next]_vars


-----------------------------------------------------------------------------
(* Fairness. The process is scheduled and time passes; a client whose      *)
(* context has expired stops waiting; a process that died is replaced. The *)
(* API server may fail at any time but not forever: garbage collection's   *)
(* list, and its delete of a given leftover, are served again and again    *)
(* while the run still has time.                                           *)

FairSpec ==
    /\ Spec
    /\ WF_vars(Tick)
    /\ \A i \in Instances :
        /\ WF_vars(Proceed(i))
        /\ WF_vars(CallFails(i, "Timeout"))
        /\ WF_vars(Restart(i))
        /\ SF_vars(GcListOk(i))
        /\ \A n \in Names :
            /\ SF_vars(GcNext(i, n) /\ left[i] > 0)
            /\ SF_vars(ServeDelete(i) /\ pc[i] = "gcDelete" /\ cm[i] = n)

-----------------------------------------------------------------------------
(* Safety.                                                                 *)

\* The instances about to create a ConfigMap, or whose create may still be
\* served: they have passed the limit check and nothing stops them.
Pending ==
    {i \in Instances : pc[i] = "room" \/ (pc[i] = "create" /\ reply[i] = "none")}

\* What the limit really guarantees. Every overlapping instance may pass the
\* check on the same list, and a create nobody waits for is in no list, so each
\* can add a ConfigMap to a full namespace; nothing else can.
Cap == MaxObjects + Cardinality(Instances) - 1 + MaxLanding

LimitBound == Cardinality(cms) <= Cap

\* i has created its ConfigMap and nothing it sent has deleted it.
Holding(i) ==
    \/ pc[i] = "create" /\ reply[i] = "ok"
    \/ pc[i] = "get"
    \/ pc[i] = "delete" /\ reply[i] \in {"unsent", "none"}

\* i's context is alive, and by more than a timestamp's rounding.
InTime(i) == left[i] > 0 /\ left[i] >= Granule - 1

\* Garbage collection, of this or of another instance, and the deletes a run or
\* a dead process gave up on never take the ConfigMap of a run that is in time:
\* no run reports the API server unhealthy for an object that a checker of its
\* own name deleted.
OwnObjectSurvives ==
    \A i \in Instances : Holding(i) /\ InTime(i) => cm[i] \in cms

\* A run that ends Healthy leaves nothing behind and nothing in flight that
\* could come back, whatever its deferred Delete met.
HealthyLeavesNothing ==
    \A i \in Instances :
        result[i] = "Healthy" => cm[i] \notin cms \cup landing

\* The steps i's run can still take itself, if nobody takes it down: two for each
\* listed ConfigMap, and one for each other call.
StepsLeft(i) ==
    CASE pc[i] = "gcList" -> 2 * Cardinality(Names) + 9
      [] pc[i] = "gcNext" -> 2 * Cardinality(gcTodo[i]) + 8
      [] pc[i] = "gcDelete" -> 2 * Cardinality(gcTodo[i]) + 9
      [] pc[i] = "limit" -> 7
      [] pc[i] = "room" -> 6
      [] pc[i] = "create" -> 5
      [] pc[i] = "get" -> 4
      [] pc[i] = "delete" -> 3
      [] pc[i] = "deferred" -> 2
      [] pc[i] = "record" -> 1
      [] OTHER -> 0

\* A run comes closer to its end with each step of its own, whatever fails, and
\* nothing that others do puts it further away; no step gives it more time, and no
\* call's context outlasts the run's. What RunEnds needs besides is fairness.
RunsShrink ==
    [][\A i \in Instances : pc[i] \notin {"idle", "down"} =>
        /\ StepsLeft(i)' <= StepsLeft(i)
        /\ Proceed(i) \/ GcListOk(i) \/ (\E e \in Errors : CallFails(i, e))
            => StepsLeft(i)' < StepsLeft(i)
        /\ callLeft'[i] <= left'[i] /\ left'[i] <= left[i]]_vars

\* As the configuration documents it (config.go, MaxObjects): the maximum
\* number of objects created by the checker that can exist at any one time.
LimitAsDocumented == Cardinality(cms) <= MaxObjects

-----------------------------------------------------------------------------
(* Refinement: the ConfigMaps are an object pool, and a run in time holds  *)
(* the one it created.                                                     *)

HeldObjects == {cm[i] : i \in {j \in Instances : Holding(j) /\ InTime(j)}}

Pool == INSTANCE ObjectPool WITH stored <- cms, held <- HeldObjects

\* Every step is one the pool allows, or does not touch the pool: creation only
\* below the cap, removal of a run's object only by that run, everything else
\* swept as litter.
ImplementsPool == Pool!PoolSpec

-----------------------------------------------------------------------------
(* Liveness.                                                               *)

\* Every run ends within its context, even if the API server never answers:
\* the loop over the leftovers and the deferred Delete included.
RunEnds ==
    \A i \in Instances : pc[i] = "gcList" ~> pc[i] \in {"idle", "down"}

\* No ConfigMap stays for ever, not even one whose create landed after its run
\* gave up on it or whose run died.
EventuallyCollected ==
    \A n \in Names : n \in cms ~> n \notin cms

=============================================================================
