------------------------------ MODULE Monitor ------------------------------
(***************************************************************************)
(* The process of cmd/clusterhealthmonitor/main.go: main itself, the       *)
(* goroutine of the metrics server (pkg/metrics/server.go), the scheduler  *)
(* with one goroutine per checker (pkg/scheduler/scheduler.go), and what   *)
(* a finished run adds to the result counter (pkg/checker/checker.go).     *)
(*                                                                         *)
(* A checker is its Run method: it takes any time, ends with any outcome,  *)
(* and those in Hanging may never end, as one that ignores its context.    *)
(***************************************************************************)
EXTENDS Integers, FiniteSets

CONSTANTS
    Checkers,       \* the configured checkers
    Hanging         \* those whose Run may never return

ASSUME CheckersAssumption == IsFiniteSet(Checkers) /\ Hanging \subseteq Checkers

VARIABLES
    build,      \* how checker.Build ends for each checker
    main,       \* where main stands
    ctxDone,    \* the signal context is done
    server,     \* the metrics server's goroutine
    sched,      \* the goroutine that called Scheduler.Start
    loop,       \* each checker's scheduleChecker loop
    tick,       \* a tick waits in the checker's ticker.C
    runCtx,     \* the context of the checker's run
    samples,    \* labels of the checker's samples: <<status, error_code>>
    failing,    \* some goroutine has called logErrorAndExit
    fault,      \* history: something failed that no signal explains
    exit        \* exit code of the process, or "none"

loops == <<loop, tick, runCtx, samples>>
vars == <<build, main, ctxDone, server, sched, loop, tick, runCtx, samples,
          failing, fault, exit>>

-----------------------------------------------------------------------------

Outcomes == {"error", "Healthy", "Unhealthy", "Skipped"}

\* RecordResult: the labels of the sample for (result, err). A switch without a
\* case for Skipped leaves both labels at their zero value.
Labels(o) ==
    CASE o = "error" -> <<"Unknown", "Unknown">>
      [] o = "Healthy" -> <<"Healthy", "Healthy">>
      [] o = "Unhealthy" -> <<"Unhealthy", "Code">>
      [] OTHER -> <<"", "">>

Statuses == {"Healthy", "Unhealthy", "Unknown"}

TypeOK ==
    /\ build \in [Checkers -> {"ok", "skip", "error"}]
    /\ main \in {"config", "client", "build", "wait", "failed"}
    /\ ctxDone \in BOOLEAN
    /\ server \in {"serving", "returned"}
    /\ sched \in {"off", "running", "returned"}
    /\ loop \in [Checkers -> {"off", "waiting", "running", "stopped"}]
    /\ tick \in [Checkers -> BOOLEAN]
    /\ runCtx \in [Checkers -> {"none", "live", "expired", "cancelled"}]
    /\ samples \in [Checkers -> SUBSET {Labels(o) : o \in Outcomes}]
    /\ failing \in BOOLEAN
    /\ fault \in BOOLEAN
    /\ exit \in {"none", "0", "1"}
    /\ \A c \in Checkers : (runCtx[c] # "none") <=> (loop[c] = "running")

\* The signal context exists, the counters are registered and m.Run is started.
Init ==
    /\ build \in [Checkers -> {"ok", "skip", "error"}]
    /\ main = "config"
    /\ ctxDone = FALSE
    /\ server = "serving"
    /\ sched = "off"
    /\ loop = [c \in Checkers |-> "off"]
    /\ tick = [c \in Checkers |-> FALSE]
    /\ runCtx = [c \in Checkers |-> "none"]
    /\ samples = [c \in Checkers |-> {}]
    /\ failing = FALSE
    /\ fault = FALSE
    /\ exit = "none"

Running == exit = "none"

-----------------------------------------------------------------------------
(* main. It does not look at the signal context before it waits for it.    *)

MainFails ==
    /\ main' = "failed"
    /\ failing' = TRUE
    /\ fault' = TRUE
    /\ UNCHANGED <<build, ctxDone, server, sched, loops, exit>>

ParseConfig ==
    /\ Running /\ main = "config"
    /\ \/ MainFails
       \/ /\ main' = "client"
          /\ UNCHANGED <<build, ctxDone, server, sched, loops, failing, fault, exit>>

CreateClient ==
    /\ Running /\ main = "client"
    /\ \/ MainFails
       \/ /\ main' = "build"
          /\ UNCHANGED <<build, ctxDone, server, sched, loops, failing, fault, exit>>

\* buildCheckerSchedule leaves out the skipped checkers.
Scheduled == {c \in Checkers : build[c] = "ok"}

BuildFails ==
    /\ Running /\ main = "build"
    /\ \E c \in Checkers : build[c] = "error"
    /\ MainFails

\* Every scheduled checker gets a goroutine and a ticker.
StartScheduler ==
    /\ Running /\ main = "build"
    /\ \A c \in Checkers : build[c] # "error"
    /\ main' = "wait"
    /\ sched' = "running"
    /\ loop' = [c \in Checkers |-> IF c \in Scheduled THEN "waiting" ELSE "off"]
    /\ UNCHANGED <<build, ctxDone, server, tick, runCtx, samples, failing,
                   fault, exit>>

\* Mutant: main waits for the runs before it returns.
MutantMainReturnsAfterRuns ==
    /\ Running /\ main = "wait"
    /\ ctxDone
    /\ \A c \in Checkers : loop[c] # "running"
    /\ exit' = "0"
    /\ UNCHANGED <<build, main, ctxDone, server, sched, loops, failing, fault>>

\* main returns, after klog.Flush, and takes every goroutine with it.
MainReturns ==
    /\ Running /\ main = "wait"
    /\ ctxDone
    /\ exit' = "0"
    /\ UNCHANGED <<build, main, ctxDone, server, sched, loops, failing, fault>>

\* klog.FlushAndExit(1), by whichever goroutine called logErrorAndExit.
ExitOne ==
    /\ Running /\ failing
    /\ exit' = "1"
    /\ UNCHANGED <<build, main, ctxDone, server, sched, loops, failing, fault>>

-----------------------------------------------------------------------------
(* The metrics server's goroutine.                                         *)

\* ListenAndServe returns: the port is taken, or accepting broke.
ServerFails ==
    /\ Running /\ server = "serving"
    /\ server' = "returned"
    /\ failing' = TRUE
    /\ fault' = TRUE
    /\ UNCHANGED <<build, main, ctxDone, sched, loops, exit>>

\* Shutdown(ctx), on a context that is done. Run returns an error whether or not
\* requests were in flight, and main's goroutine logs it and exits.
ServerStops ==
    /\ Running /\ server = "serving"
    /\ ctxDone
    /\ server' = "returned"
    /\ failing' = TRUE
    /\ UNCHANGED <<build, main, ctxDone, sched, loops, fault, exit>>

-----------------------------------------------------------------------------
(* The scheduler's goroutines.                                             *)

\* The ticker drops a tick when one is waiting already.
Tick(c) ==
    /\ Running /\ loop[c] \in {"waiting", "running"}
    /\ tick' = [tick EXCEPT ![c] = TRUE]
    /\ UNCHANGED <<build, main, ctxDone, server, sched, loop, runCtx, samples,
                   failing, fault, exit>>

\* Mutant: the run's context is not derived from the scheduler's.
MutantStartRun(c) ==
    /\ Running /\ loop[c] = "waiting"
    /\ tick[c]
    /\ tick' = [tick EXCEPT ![c] = FALSE]
    /\ loop' = [loop EXCEPT ![c] = "running"]
    /\ runCtx' = [runCtx EXCEPT ![c] = "live"]
    /\ UNCHANGED <<build, main, ctxDone, server, sched, samples, failing, fault,
                   exit>>

\* select takes the tick, also when the context is done as well. The run's
\* context is derived from the scheduler's.
StartRun(c) ==
    /\ Running /\ loop[c] = "waiting"
    /\ tick[c]
    /\ tick' = [tick EXCEPT ![c] = FALSE]
    /\ loop' = [loop EXCEPT ![c] = "running"]
    /\ runCtx' = [runCtx EXCEPT ![c] = IF ctxDone THEN "cancelled" ELSE "live"]
    /\ UNCHANGED <<build, main, ctxDone, server, sched, samples, failing, fault,
                   exit>>

Expire(c) ==
    /\ Running /\ runCtx[c] = "live"
    /\ runCtx' = [runCtx EXCEPT ![c] = "expired"]
    /\ UNCHANGED <<build, main, ctxDone, server, sched, loop, tick, samples,
                   failing, fault, exit>>

\* Mutant: the loop ends with the first run that fails.
MutantEndRunStops(c, o) ==
    /\ Running /\ loop[c] = "running"
    /\ samples' = [samples EXCEPT ![c] = @ \cup {Labels(o)}]
    /\ loop' = [loop EXCEPT ![c] = IF o = "error" THEN "stopped" ELSE "waiting"]
    /\ runCtx' = [runCtx EXCEPT ![c] = "none"]
    /\ UNCHANGED <<build, main, ctxDone, server, sched, tick, failing, fault, exit>>

\* Mutant: the run's context is not released.
MutantEndRunNoCancel(c, o) ==
    /\ Running /\ loop[c] = "running"
    /\ samples' = [samples EXCEPT ![c] = @ \cup {Labels(o)}]
    /\ loop' = [loop EXCEPT ![c] = "waiting"]
    /\ UNCHANGED <<build, main, ctxDone, server, sched, tick, runCtx, failing,
                   fault, exit>>

\* Run records its outcome and returns, and its context is released.
EndRun(c, o) ==
    /\ Running /\ loop[c] = "running"
    /\ samples' = [samples EXCEPT ![c] = @ \cup {Labels(o)}]
    /\ loop' = [loop EXCEPT ![c] = "waiting"]
    /\ runCtx' = [runCtx EXCEPT ![c] = "none"]
    /\ UNCHANGED <<build, main, ctxDone, server, sched, tick, failing, fault, exit>>

\* select takes ctx.Done.
StopLoop(c) ==
    /\ Running /\ loop[c] = "waiting"
    /\ ctxDone
    /\ loop' = [loop EXCEPT ![c] = "stopped"]
    /\ UNCHANGED <<build, main, ctxDone, server, sched, tick, runCtx, samples,
                   failing, fault, exit>>

\* Mutant: Wait does not wait for the loops but for the context.
MutantStartReturnsEarly ==
    /\ Running /\ sched = "running"
    /\ \E c \in Scheduled : loop[c] = "stopped"
    /\ sched' = "returned"
    /\ failing' = TRUE
    /\ UNCHANGED <<build, main, ctxDone, server, loops, fault, exit>>

\* Mutant: an error is reported also when nothing was scheduled.
MutantStartReturnsError ==
    /\ Running /\ sched = "running"
    /\ \A c \in Scheduled : loop[c] = "stopped"
    /\ sched' = "returned"
    /\ failing' = TRUE
    /\ UNCHANGED <<build, main, ctxDone, server, loops, fault, exit>>

\* g.Wait returns when every loop has: with their error, or with none when
\* nothing was scheduled.
StartReturns ==
    /\ Running /\ sched = "running"
    /\ \A c \in Scheduled : loop[c] = "stopped"
    /\ sched' = "returned"
    /\ failing' = (failing \/ Scheduled # {})
    /\ UNCHANGED <<build, main, ctxDone, server, loops, fault, exit>>

-----------------------------------------------------------------------------

\* SIGINT or SIGTERM. Contexts derived from the signal context are done too.
Signal ==
    /\ Running /\ ~ctxDone
    /\ ctxDone' = TRUE
    /\ runCtx' = [c \in Checkers |-> IF runCtx[c] = "live" THEN "cancelled"
                                                         ELSE runCtx[c]]
    /\ UNCHANGED <<build, main, server, sched, loop, tick, samples, failing,
                   fault, exit>>

MainStep ==
    ParseConfig \/ CreateClient \/ BuildFails \/ StartScheduler \/ MainReturns

CheckerStep(c) ==
    \/ Tick(c)
    \/ StartRun(c)
    \/ Expire(c)
    \/ \E o \in Outcomes : EndRun(c, o)
    \/ StopLoop(c)

Next ==
    \/ MainStep
    \/ ExitOne
    \/ ServerFails
    \/ ServerStops
    \/ \E c \in Checkers : CheckerStep(c)
    \/ StartReturns
    \/ Signal

Spec == Init /\ [][Next]_vars

-----------------------------------------------------------------------------
(* Fairness: main and the loops are scheduled, tickers tick, and a run of  *)
(* a checker outside Hanging ends. select chooses at random among what is  *)
(* ready, so neither of its cases is passed over for ever. Nothing is      *)
(* asked of the metrics server: main ends the process without it.          *)

FairSpec ==
    /\ Spec
    /\ WF_vars(MainStep)
    /\ WF_vars(ExitOne)
    /\ WF_vars(StartReturns)
    /\ \A c \in Checkers :
        /\ WF_vars(Tick(c))
        /\ SF_vars(StartRun(c))
        /\ SF_vars(StopLoop(c))
    /\ \A c \in Checkers \ Hanging : WF_vars(\E o \in Outcomes : EndRun(c, o))

-----------------------------------------------------------------------------
(* Properties.                                                             *)

\* The process exits with 1 only if something failed, or a signal told it to
\* stop: no checker's outcome and no skipped checker brings it down, and the
\* scheduler, which returns when it has nothing to schedule, does not either.
ExitOneHasCause == exit = "1" => fault \/ ctxDone

\* The signal reaches every run that heeds its context: those it finds under way,
\* and those that a loop begins later, when select prefers a tick that waited
\* (scheduler.go, scheduleChecker). No run after it has its whole timeout.
SignalReachesRuns == ctxDone => \A c \in Checkers : runCtx[c] # "live"

\* Start returns only when no run is going on any more: the scheduler itself
\* abandons no run, only the end of the process does.
StartWaitsForRuns ==
    sched = "returned" => \A c \in Checkers : loop[c] # "running"

\* A scheduled checker is run again and again, whatever the others do: one that
\* hangs holds up only itself.
EveryCheckerRuns ==
    \A c \in Checkers \ Hanging :
        loop[c] # "off" ~> loop[c] = "running" \/ ctxDone \/ exit # "none"

\* A signal ends the process, even while a run hangs.
SignalEndsProcess == ctxDone ~> exit # "none"

\* As metrics.go documents error_code: every sample has a status and a code.
SamplesLabelled ==
    \A c \in Checkers : \A s \in samples[c] : s[1] \in Statuses /\ s[2] # ""

\* As main.go documents the signal context: a signal is a graceful shutdown.
SignalExitsCleanly == exit = "1" => fault

=============================================================================
