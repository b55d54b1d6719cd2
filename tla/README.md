# Verification of the cluster health monitor

The cluster health monitor is one Go process. It reads a list of checkers from a
configuration file, runs each on its own ticker, and counts the outcome of every
run in a Prometheus counter. Some checkers create objects in the cluster they
watch (ConfigMaps, Pods, volume claims, storage classes, NodePools) and must
neither pile them up nor take them from each other. This directory holds TLA+
models of the process and of those checkers, their TLC runs, and proofs checked
by TLAPS. All paths below are relative to `src/`.

## The system

| Part | State it keeps | Operations | Talks to |
|---|---|---|---|
| `main` (`cmd/clusterhealthmonitor/main.go`) | signal context, checker schedule | parse configuration, create client, build checkers (a skipped one is left out), start metrics server and scheduler, wait for a signal | everything below; `logErrorAndExit` from any goroutine ends the process |
| Scheduler (`pkg/scheduler`) | one goroutine and ticker per checker | take a tick, run the checker under a context with its timeout, stop when the context is done | calls `Checker.Run` synchronously |
| Checker registry and recording (`pkg/checker`) | builders, the result counters | `Build`, `RecordResult`, `RecordCoreDNSPodResult` | counters shared by all checkers |
| Metrics server (`pkg/metrics`) | HTTP server | serve, shut down on signal | Prometheus |
| API server checker (`pkg/checker/apiserver`) | none in the process; ConfigMaps in the cluster | collect leftovers, check the limit, create, get, delete, deferred delete | API server |
| Pod startup checker (`pkg/checker/podstartup`) | none in the process; Pods, claims, StorageClasses, NodePools in the cluster | collect leftovers, limits, create CSI resources, NodePool and Pod, wait for the container, dial it, deferred deletions | API server, Karpenter, kubelet |
| DNS checker (`pkg/checker/dnscheck`) | none | query the CoreDNS service and pods, LocalDNS, or each pod with a result per pod | API server, DNS servers |
| Azure Policy checker (`pkg/checker/azurepolicy`) | captured warnings, per run | a dry-run create, decision on error and warnings | API server |
| Metrics server checker (`pkg/checker/metricsserver`) | none | one List | metrics API |
| Configuration (`pkg/config`) | none | parse, `validate` | read once by `main` |

What makes it hard:

* **Contexts.** Each run has one context with the checker's timeout. Deferred
  deletions use it too, so a run that used up its time deletes nothing. What is
  left is the business of garbage collection in a later run. It also decides what an
  error means: the same silence is a time-out of the component, of the run, or of
  neither when the process is told to stop.
* **Time and age.** Garbage collection decides by `time.Since(CreationTimestamp)`,
  a timestamp rounded down to a second, whether an object is a leftover or
  belongs to a run in progress in another process.
* **Requests that outlive their client.** A create or delete that timed out or
  whose process died may still be served, after other runs have listed, counted
  or collected.
* **Overlap.** The Deployment has one replica, but while it rolls or a killed Pod
  is replaced two processes run the same checker, and list before either creates.
* **Partial failure.** Creating and deleting several objects stops halfway; early
  returns come before the deferral that would clean up.
* **Shutdown.** `main` waits for no run; three goroutines race to end the process.

What makes each part correct: the limits hold up to a known slack; no run loses an
object to somebody's garbage collection; a run that met no failure leaves nothing;
every leftover is collected; a run ends with its context; a checker that hangs, is
skipped or fails costs no other checker anything; the process ends when told to,
with exit code 1 only for a cause; every sample carries the labels it should, and
says of the component only what the run has found out; what validation admits is all
that the rest of the program relies on.

## The modules

| Module | Models | Runs |
|---|---|---|
| `ObjectPool` | abstract: what a checker that creates objects promises about them | through refinement |
| `APIServerChecker` | `pkg/checker/apiserver/api_server.go` with an API server, a clock, overlapping processes | `api_*` |
| `MC_APIServerChecker` | symmetry and view for TLC | |
| `APIServerChecker_proofs` | theorems about `APIServerChecker` | |
| `Monitor` | `main.go`, `scheduler.go`, `metrics/server.go`, `RecordResult` | `monitor*` |
| `Monitor_proofs` | theorems about `Monitor` | |
| `PodStartupChecker` | `pkg/checker/podstartup`: what a run does to objects | `pod_*` |
| `MC_PodStartupChecker` | lists and label functions for TLC | |
| `PodStartupChecker_proofs` | theorems about `PodStartupChecker` | |
| `CheckerRun` | what runs share: context, time, calls that end, samples (`RecordResult`, `RecordCoreDNSPodResult`) | `verdicts` |
| `DNSChecker` | `pkg/checker/dnscheck` | `verdicts` |
| `AzurePolicyChecker` | `pkg/checker/azurepolicy` | `verdicts` |
| `MetricsServerChecker` | `pkg/checker/metricsserver` | `verdicts` |
| `PodStartupVerdict` | `pkg/checker/podstartup`: how a run comes to its result | `verdicts` |
| `Verdicts` | composes the five, with a signal | `verdicts` |
| `MC_Verdicts` | endpoint lists for TLC | |
| `Verdicts_proofs` | theorems about `Verdicts` and the modules it composes | |
| `Config` | `pkg/config/validation.go`, `checker.Build` and the builders, `main.go`'s schedule, the scheduler's loops up to their first run | `config` |
| `MC_Config` | configurations for TLC | |
| `Config_proofs` | theorems about `Config` | |
| `SetLemmas` | least numbers, and bounds on the size of images, unions and partitions, for the proofs | |

`DNSChecker`, `AzurePolicyChecker`, `MetricsServerChecker` and `PodStartupVerdict` extend
`CheckerRun` and add the variables of their own; `Verdicts` is their disjunction, each action
leaving the others' variables alone. `APIServerChecker` and `PodStartupChecker` implement `ObjectPool` by
refinement mappings.

### APIServerChecker

`pc[i]` is the place in `check` where instance `i` waits: `gcList`, `gcNext`,
`gcDelete` are `garbageCollect`; `limit` is the List before the create; `room` lies
between that List and the create; `create`, `get`, `delete` are the three calls;
`deferred` is the deferred Delete; `record` is `RecordResult`. A mutating call is a
request with `reply` "none" until the server serves it (`ServeCreate`,
`ServeDelete`), possibly long before the client hears of it (`CreateReturns`,
`DeleteReturns`). A client may give up first (`...Fails`): a create then is lost or
goes to `landing`, a delete is lost or goes to `doomed`, and both may be served later
(`Land`, `Doom`). `left[i]` counts down the run's context and `callLeft[i]` the
call's, which is the smaller of the run's and the call's own timeout; with 0 left
nothing is sent (`reply` "unsent"). `Tick` ages all ConfigMaps and counts down all
contexts. Ages saturate one past the timeout, so time is not bounded. `Crash` stops
an instance without its deferred calls, as a kill does and as `main` does when it
returns on a signal.

Names end in `UnixNano`; the model takes a new one to differ from every name in
use, and with few names a run may wait in `room` for one to be free.

### Monitor

`main`, `server`, `sched` and `loop[c]` are the places of the goroutines; `tick[c]`
is the one-element channel of a ticker, which drops ticks; `runCtx[c]` is the context
of a run. `failing` means some goroutine has called `logErrorAndExit`, which may still
lose the race against `main` returning: `exit` is set by whichever comes first. A
checker is anything that runs for any time and ends with any outcome. A panic in a
checker, which would end the process, is not modelled.

### PodStartupChecker

An object is a kind and the timestamp of its run. `pc` and `stage` give the place in
`check` and in `garbageCollect`, `k` the position in the list of CSI resources, which
is created and deleted in the same order. `ReturnVia` names the first of the deferred
deletions registered so far, which is where an early return continues: `record` before
`deleteCSIResources` is deferred, `csiDelete` before the Pod's deletion is, `podDelete`
after. There is no clock: a run's time is ample, ending (less than a second, the
rounding of timestamps) or over, and an object may look older than the timeout only
when its run's time is not ample any more. The run's context and the age limit of
garbage collection are the same configured timeout, and the run began before its
objects. NodePools are collected by any checker at any age, as the code does.
How long a startup took is a choice among "in time", "too long" and "unknown";
`PodStartupVerdict` says when it is which. `enabledCSIs` is a variable that never changes, so
that one run checks several configurations.

The Pods, the claims of each CSI type and the StorageClasses of each checker name are an `ObjectPool`
(`Pool(l, kind, csis)`): `stored` is the objects that are not being deleted, `held` those of runs whose time is
ample, from the create's answer to the deferred Delete (`Made`), and the cap is the limit plus what `ResourceBounds`
grants. There is a pool per name and kind, and so `ImplementsPools` is `[][\A l ...]_vars`, the form of a
quantified box that TLC checks. The run checks it for Pods and for claims of disk storage; the theorem is for
all kinds. NodePools are in no pool: what a run holds, any other checker may delete.

### Verdicts

One checker, `check`, runs again and again; for DNS `check` is the target. `pc` is the call
the run is in, `left` what its context has left, `wait` what the call has taken. `Limit` is how
long a call can last: `QueryTimeout` for a DNS query (`lookupHost` derives a context per query),
`TCPTimeout` for the dialer, a second for the poll's sleep, and nothing of its own for the others.
`ctx` is "cancelled" after a signal (`Shutdown`), and from the start for a run that begins after
one. A call that has run out of either returns before time goes on. `Fails("deadline")` is an error
for which `errors.Is(err, context.DeadlineExceeded)` holds; a cancelled context is none.

* `DNSChecker`: `endpoints` is what the EndpointSlices held, `e` and `a` the place in the
  loops over endpoints and their addresses, `answered` and `faults` the history of the queries.
  `Queried` are the endpoints whose turn comes: the ready ones and, per pod, those of them that name a pod. `GoOn` is the rest of
  an iteration of either loop.
* `AzurePolicyChecker`: a message is the set of the words in it that the checker looks for. The model
  does not say when Azure Policy denies or warns, or what others say, only that a message of
  Azure Policy has the words that `hasAzurePolicyViolation` wants. `named` is for checkers whose name contains
  "azurepolicy": it begins the Pod's name, which a message of anybody may quote.
* `MetricsServerChecker`: one call.
* `PodStartupVerdict`: the Pod is created at `born`, pulls its image from `pulling` for `pulled` ticks, starts at
  `started`; an `event` may be stored at any time after the pull. `ToSecond` and `RoundToSecond` are what
  timestamps and `Duration.Round` do. `Prepare` stands for all calls before the Pod's creation, and may
  take any time.

### Config

`cfg` is the file's list of checkers, from which `Parse` proceeds only if it is `Valid`; `Build`, `Skip` and
`BuildFails` are the iterations of `buildCheckerSchedule`, `Start` is `Scheduler.Start`, `NewTicker` and
`FirstRun` the beginning of each goroutine. `stage` becomes "crashed" where Go panics: a builder or a run
dereferences a section that is missing, a ticker gets an interval that is not positive. Durations wrap at
`MaxDuration`, as the sum in `PodStartupConfig.validate` does at 2^63.

## The runs

| Run | Bounds | Shows |
|---|---|---|
| `api_safety` | 2 instances, 3 names, `MaxObjects` 1, timeout 3 ticks, granule 3, 1 crash | the limit's real bound, own objects survive, Healthy leaves nothing, refinement of `ObjectPool` |
| `api_liveness` | 1 instance, 3 names, 1 create in flight, 1 crash | runs end and come closer to it with each step, leftovers are collected, late creates refine `ObjectPool` too |
| `api_limit` | 1 instance | counterexample to the documented limit |
| `monitor` | 2 checkers, one may hang | isolation, exit codes, a shutdown that reaches every run |
| `monitor_samples` | 1 checker | a skipped result has empty labels |
| `monitor_signal` | 1 checker | a signal may end in exit code 1 |
| `pod_storage` | 1 instance, disk and blob CSI or file CSI, 3 timestamps, 1 create in flight, any number of crashes | bounds on Pods, claims and StorageClasses, clean runs leave nothing |
| `pod_overlap` | 2 instances of one name, disk CSI, 3 timestamps | no garbage collection of live objects, bounds under overlap, refinement of `ObjectPool` |
| `pod_liveness` | 1 instance, file CSI and NodePool, 1 timestamp | every object is eventually gone, runs come closer to their end with each step |
| `pod_nodepool` | 2 instances of different names, NodePools | counterexample: a NodePool in use is deleted |
| `verdicts` | each checker and DNS target, timeout 9 ticks, queries 4, dial 1, second 3, start-up limit 4, lists of up to 3 endpoints and 2 addresses | what a status says of the component; every run reports and ends |
| `config` | some nine thousand configurations of up to three checkers, durations -8 to 7 | validation covers what later code takes for granted; each checker gets its loop; selectors differ; time-outs fit |

Why the bounds are enough. The bound `MaxObjects + instances - 1 + in flight` is 2 in
`api_safety` and `api_liveness`, and 3 names leave room for it to be passed; the same for `pod_storage`
(fewer than 3 Pods or StorageClasses with 3 timestamps, fewer than 5 claims of a possible 6) and
`pod_overlap` (fewer than 3 with 3). A timeout of 2 or 3 ticks with
calls of 1 lets a call expire before its run and a run before its call. Granule 3 with timeout 3
makes an object look up to two ticks older than it is, so that a run in its last tick can find its
ConfigMap collected, and still leaves a run time in which that must not happen. Late creates
are in `api_liveness` and overlap is in `api_safety`, to keep both small. One crash, one late create and one overlapping
instance are each enough for every hazard listed in `PROJECT.json`. All safety properties of the passing
runs are also proved for all values of the constants. `pod_liveness` has one timestamp: a run that
finds it taken ends after its garbage collection, which is the part that matters there.

In `verdicts` three silent queries of 4 ticks exceed a timeout of 9, so that the last is cut off by the
context, and two do not; a list may have two addresses or one pod twice, endpoints without a pod, and endpoints
that are not ready. A second of three ticks lets timestamps be rounded down and differences rounded up and down.
The start-up limit is a second and a third, as validation asks for no whole number of seconds: a difference of 4
ticks rounds to one second, so that a start-up of 6 ticks, with a pull of 2, is healthy. It takes a timeout of 9 to
see that. The timeout leaves room for the limit, a pull and a poll too, and for runs that have less.
In `config` four bits are enough for sums that wrap; single checkers have all
combinations of edge values, and pairs and triples have equal and different names, types and namespaces.

Each property is also run against a mutant of the model (the operators named `Mutant...`,
each before the definition it would replace), which violates it.

### Fairness

* `APIServerChecker`: the process is scheduled and time passes (weak fairness of
  `Proceed`, `Tick`, `Restart`); a client stops waiting when its context is done, which
  client-go does (weak fairness of the "Timeout" failures). Only `EventuallyCollected` asks
  anything of the API server: a list by garbage collection, and its delete of a given
  leftover, are not failed for ever (strong fairness). A server that is down for good
  collects nothing. `RunEnds` does not rest on it.
* `Monitor`: goroutines are scheduled, tickers tick, `select` picks at random among
  what is ready, so neither case is passed over for ever (strong fairness of `StartRun` and
  `StopLoop`); a run of a checker not in `Hanging` ends.
* `PodStartupChecker`: as the first, and grace periods and finalizers end. `GcInTime`
  assumes that contexts outlive garbage collection. Without it `EventuallyGone` is false: the
  stages run one after the other, and a stage that hangs in every run starves those behind it.
  Crashes are off there, because a process that dies in every run collects nothing.

* `Verdicts`: time passes (weak fairness of `Tick`), and a call that has run out of time or whose context
  is done returns (weak fairness of `GiveUp`), as those of client-go, the resolver and the dialer do. Nothing
  has to answer, and the process need not stop.
* `Config` has no liveness property.

Every finite run of the models may go on, except that of `Monitor`, whose process ends: its
configurations switch off deadlock checking.

### Where the code and its documents differ

* `api_limit`: `config.go:133` calls `maxObjects` "the maximum number of objects created by
  the checker that can exist at any one time". A create that timed out and is served after the
  next run's List exceeds it, even with one process. What does hold is `LimitBound`.
* `monitor_samples`: `metrics.go:10` says `error_code` is required; a skipped result is counted
  with an empty status and an empty code.
* `monitor_signal`: `main.go:47` waits for a signal "to gracefully shutdown"; the scheduler and
  the metrics server return the context's error, which their goroutines turn into exit code 1
  if they are faster than `main`.
* `pod_nodepool`: garbage collection is of "leftover" objects "previously created by this
  checker" (`podstartup.go:115`); NodePools of running checkers of any name are deleted.

Differences that no run shows, as nothing in the models depends on them or a property makes an exception for them: `config.go:20` says that
there are at most 20 checkers and `config.go:28` that names follow RFC 1123, and `validate` checks neither;
mutate and read time-outs may be zero or negative, so that every call expires at once; `enabledCSIs` may
hold unknown or repeated types, which `createCSIResources` rejects or fails on in every run. `config.go:88` promises an
unhealthy status for every start-up that exceeds `syntheticPodStartupTimeout`, but what is measured is rounded to a second
first (`podstartup.go:199`): with a limit of 1.2s one of 1.4s is healthy. `validation.go:118` adds two time-outs, and a
sum that wraps is below any timeout; `BudgetsFit` leaves out such sums.

### What the verdicts are worth

Some properties hold only with a condition, which says something of the code:

* `HealthyIsEarned` leaves out Azure Policy checkers whose name contains "azurepolicy", as that
  of the default manifest does: the message of another controller that quotes the Pod's name then
  counts as Azure Policy's if it speaks of probes or images too.
* `BlameHasCause` says little of a run that met an error: any failed dry run without a
  violation is `AzurePolicyEnforcementMissing`, and any failed List `MetricsServerUnavailable`, at
  shutdown as well, when the context is cancelled and not expired.
* `TimeoutIsEarned` is about endpoints whose queries, with those before them, fit in the time
  left after the list. Later ones are reported as timed out without having been asked for their time.
* `StartupIsMeasured` is about the limit rounded up to a whole second: a healthy start-up may take half a second more, so that with
  a limit of 2.5s one of 3.4s is healthy, and one that is said to exceed it a second and a half less. And
  "exceeded" by a timeout is right only if the run had time for the limit, the pull and a poll when it
  created the Pod, and no poll failed.
* In a per-pod check an error other than a time-out is `Unknown`; in a check of CoreDNS the same error
  is `Unhealthy`. A per-pod check that finds no endpoints records nothing.

## What is proved

`APIServerChecker_proofs`, for every number of instances and names and all values of the
configuration that the named assumptions of `APIServerChecker` admit (positive limit and
timeout, call timeouts below the run's, which `validate` checks; call timeouts may be zero):

* `TypeCorrect`: `TypeOK` is invariant. It is inductive as it stands, with its conjunct that
  a run in a call has a ConfigMap.
* `LimitHolds`: `LimitBound`. The number of ConfigMaps alone is not inductive: a create may
  land after the list that did not see it. `LimitInv` counts everything that can still become a
  ConfigMap, stored or landing, plus the instances past the limit check (`Pending`); no step
  increases the sum beyond the cap, because passing the check adds an instance only when fewer
  than `MaxObjects` are stored. What lands moves from one term to the other (`LimitMoved`), everything
  else shrinks (`LimitKept`).
* `LimitWhenAlone`: `LimitAsDocumented`, for a single instance none of whose creates is served late. So `api_limit` shows
  one of only two ways in which the documented limit can be exceeded.
* `OwnObjectHolds`: `OwnObjectSurvives`. `OwnInv` says that no two runs own the same name, that
  nobody knows a name before its create is served, and that the age of a held ConfigMap plus what
  is left of its run stays within the timeout and the rounding. So no garbage collection, whenever
  it listed, finds it too old while its run is in time.
* `HealthyIsClean`: `HealthyLeavesNothing`. `GoneInv` adds that a name in use by a run is in no create in
  flight, that a served Delete has removed the ConfigMap, and that nobody works with the name of a
  run that is about to return Healthy. It needs of `OwnInv` that runs differ in their names.
* `PoolImplemented`: `ImplementsPool`. `stored` is the ConfigMaps, `held` those of the runs in
  time. `ServeCreate` is `Obtain` or `Appear`, with room by `LimitInv` after the step; `Land` is
  `Appear`; deletions are `Release` or, by `OwnInv`, `Sweep`; a run that ends or runs out of time
  is `Abandon`; everything else stutters.
* `RunsEnd`: `RunsShrink`, the part of `RunEnds` that needs no fairness. `StepsLeft` counts the steps a run can still
  take, 2·|`Names`| + 9 at most, and all its own steps lower it, failures too. `CallsFit` says that a call never has
  longer than its run, so a call that hangs ends with the run's context at the latest.

`Monitor_proofs`, for any set of checkers and any of them hanging:

* `TypeCorrect`, `ExitHasCause`, `SignalReaches`, `StartWaits`: the four invariants of `monitor`. `TypeOK` is not inductive
  by itself: that a run context exists only while its loop is running is lost in
  `StartScheduler` unless no loop exists before (`Loops`). `Causes` says that a stopped loop means that the
  signal came, so that the error which the scheduler returns has a cause, and that it returns an error only if
  it had loops. `SignalReachesRuns` is inductive with `TypeOK`: `Signal` cancels what is under way, and `StartRun`
  derives a dead context from a dead one.

`Config_proofs`, for any set of configurations and any width of durations:

* `TypeCorrect`, `NeverPanics`, `EachRuns`, `SelectorsApart`, `Budgets`: the five properties of `config`. The
  invariant is `Built`, that the schedule is the places built so far in increasing order without those
  skipped, and `Started`, that nothing gets past parsing that is not `Valid` and that loop i runs the schedule's
  i-th place. Loops then run different places (`LoopsDistinct`), so their names differ. `Budgets` rests on
  `WrapFits`: a sum that fits does not wrap; one that does not fit is the exception `BudgetsFit` makes.

`PodStartupChecker_proofs`, for any number of instances sharing names in any way, any lists of CSI types (unknown
ones apart), any limit and number of creates in flight, with and without node provisioning and crashes, and whether or not
contexts outlive garbage collection:

* `TypeCorrect`: `TypeOK`, together with `Control`: when a run has its timestamp, that no other has the same, that the
  timestamp carries the run's label, and where in `check` the place in the plan is the first. The plan is a recursive
  function, of which the prover knows nothing until a function that satisfies its equation is shown to exist;
  `PlanExists` does this without induction, from the least length for which there is none (`LeastNat` of
  `SetLemmas`), and in the same way the lemmas on its kinds and its length follow.
* `Survival`: `OwnObjectsSurvive`. A run's objects are safe because they are not old while its time is ample,
  and a StorageClass, a claim or a Pod is collected only when old, or by name. `Protected` adds what the latter needs: the
  list of the stage that deletes at any age has NodePools only, a Pod is not there before its create, and a plan
  that is carried out in full names no object twice (a repeated CSI type fails at the second create), so that deleting
  the first does not delete a later one.
* `CleanRuns`: `CleanRunLeavesNothing`. `Accounted` lists for each place in `check` the kinds that a run which met no failure
  may have in the cluster, and that none of its creates is in flight: each return goes to a deferred call that
  deletes what is listed for the place it comes from.
* `Bounds`: `ResourceBounds`. As with `LimitHolds` the objects stored are not inductive. `Reserved` are those that are stored, in
  flight, or that an instance has passed the limit check for and not created yet (`Due`), and `Bounded` puts the same
  bounds on them: only a limit check adds to them, when fewer than the limit are stored, and then at most one
  run's worth for each instance of the name.
* `PoolsImplemented`: `ImplementsPools`. `RunMoves` says when a step of a run is a move of the pool of a kind: it holds
  after the step only what it held before or has just created. A create is `Obtain`, or `Appear` when it was given up or came
  late, as are `Land` and `Crash`; a deferred deletion is `Release`, or `Abandon` when it is lost; garbage collection
  is `Sweep`, by `Survival`; a run that dies, or whose time is not ample any more, is `Abandon`. There is room for what
  is created by `Bounds` after the step (`StockFits`). A step of a run of another name, or on another kind, leaves
  the pool alone, and because a plan carried out names no object twice (`Protected`), deleting one claim releases
  no other.
* `RunsEnd`: `RunsShrink`. `StepsLeft` counts for each stage of garbage collection a step per object and two more, twice the
  plan, and the other calls. Each return in `check` goes to a place with a lower count (`StepsTables`), and so does the end
  of a stage (`NextStageShrinks`), because what a list returns is no more than all objects.
* `SoleNodePoolSurvives`: `NodePoolSurvives`, for a single instance. `NoPoolYet` says that a run's NodePool is not there before
  its create, so that it is not being deleted either, and a run alone deletes it only at its end. `pod_nodepool` shows what
  another instance can do.

`Verdicts_proofs`, for all time-outs, all lengths of a second, all limits and all lists of endpoints, in any order and with
any number of addresses, that the assumptions of the modules admit (the time-outs inside a run are below the run's,
which `validate` checks; the start-up limit is positive, in whole seconds or not; an endpoint has an address):

* `TypeCorrect`: `TypeOK`, from `Control`: which calls each checker makes, what a sample may say of it, that a query is
  of an endpoint that is to be queried, and what of the Pod is known at each call.
* `Earned`, `Blame`, `OwnTimeouts`, `StartupTruth`: what samples say is true. `Right` says of one outcome what the history of
  its run must show, and `AllRight` that every recorded sample is right. `Progress` is what a run knows at each
  call: which queries were answered, that those before the current one have taken at most `QueryTimeout` each, so
  that one within the budget (`Demand`) is silent for its own time and not for want of the run's; and what the poll has
  seen of the Pod, and when. `StartupTruth` rests on what rounding does: a timestamp loses less than a second, a difference
  is off by half a second at most, and a rounded measure is below the limit just when it is below the
  limit rounded up (`WholeLimit`).
* `Reports`: `EveryRunReports`, an action property. `InOrder` says that a per-pod run has one sample for each endpoint it has
  passed, at that endpoint's rank among those to be queried. At the last one the ranks are all the samples there are.

With these, every invariant, every action property and both refinements that the passing runs check are theorems. Only
model-checked are:

* the liveness properties (`RunEnds`, `EventuallyCollected`, `EventuallyGone`, `EveryCheckerRuns`, `SignalEndsProcess`):
  they rest on fairness, which is a statement about `ENABLED` that the prover cannot use. `RunsEnd` of either checker
  proves that a run's steps are numbered; that it takes them is fairness;
* the four properties of the runs that expect a violation, which are false; two of them are proved for a
  single instance (`LimitWhenAlone`, `SoleNodePoolSurvives`).

## Not modelled

YAML parsing, which fails or yields a configuration; object specifications; the text of image pull messages
(a duration or none), of errors and of logs; the addresses a domain resolves to; registration of
builders and counters; HTTP requests to the metrics endpoint; manifests and images; end to end
tests. A container that restarts while it is measured, and a Pod that is evicted, are not in
`PodStartupVerdict`. API priority, watches and the garbage collector of Kubernetes play no part. A panic in
`Monitor` is not modelled; where configurations could cause one is in `Config`.

## Plan

Done, in this order: `ObjectPool` and `APIServerChecker` with its proofs, `Monitor`,
`PodStartupChecker`, the verdicts of all other checkers, `Config` with its proofs, the proofs of
`HealthyLeavesNothing` and of `Monitor`, the proofs of `PodStartupChecker` and `Verdicts`, the Pods, claims and StorageClasses as `ObjectPool`s,
the bounds on the steps of their runs (`RunsShrink`). Next:

1. Composition: `Monitor` with a checker whose runs leave objects, so that shutdown, restart and
   collection are in one specification.
