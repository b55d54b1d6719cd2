------------------------------- MODULE Config -------------------------------
(***************************************************************************)
(* From the configuration file to running checkers: what pkg/config admits, *)
(* what the builders, the scheduler and the first runs take for granted,   *)
(* and which checker each loop runs.                                       *)
(*                                                                         *)
(* A configured checker is [name, type, interval, timeout, own]; own is    *)
(* the section its type calls for, or NoConfig. Namespaces and label keys  *)
(* that Kubernetes rejects are in Malformed. Durations are integers of a   *)
(* fixed width, as Go's int64.                                             *)
(***************************************************************************)
EXTENDS Integers, Sequences, FiniteSets

CONSTANTS
    Configs,        \* the configurations: sequences of configured checkers
    NoConfig,       \* a section that is not there
    Malformed,      \* invalid namespaces and label keys
    MaxDuration     \* the largest duration

Durations == -MaxDuration - 1 .. MaxDuration
Wrap(n) == ((n + MaxDuration + 1) % (2 * MaxDuration + 2)) - MaxDuration - 1

ASSUME DurationAssumption == MaxDuration \in Nat
ASSUME ConfigsAssumption ==
    \A c \in Configs :
        /\ c \in Seq({c[n] : n \in DOMAIN c})
        /\ \A n \in DOMAIN c :
            /\ c[n].interval \in Durations /\ c[n].timeout \in Durations
            /\ c[n].own # NoConfig =>
                /\ c[n].type = "DNS" => c[n].own.queryTimeout \in Durations
                /\ c[n].type = "PodStartup" =>
                    {c[n].own.startupTimeout, c[n].own.tcpTimeout} \subseteq Durations

VARIABLES
    cfg,        \* the configuration file
    stage,      \* where the process stands
    next,       \* buildCheckerSchedule: the next of cfg to build
    schedule,   \* buildCheckerSchedule: places in cfg, in order
    skipped,    \* history: the places that were skipped
    loops       \* scheduleChecker: what each goroutine runs, and how far it is

vars == <<cfg, stage, next, schedule, skipped, loops>>

-----------------------------------------------------------------------------
(* Validation.                                                             *)

Types == {"DNS", "PodStartup", "APIServer", "AzurePolicy", "MetricsServer"}
Targets == {"CoreDNS", "CoreDNSPerPod", "LocalDNS"}

ValidDNS(c, timeout) ==
    /\ c # NoConfig
    /\ c.domain # "" /\ c.target \in Targets
    /\ c.queryTimeout > 0
    /\ timeout > c.queryTimeout

\* Mutant: each time-out is compared, not their sum.
MutantValidPodStartup(c, timeout) ==
    /\ c # NoConfig
    /\ c.namespace \notin Malformed /\ c.labelKey \notin Malformed
    /\ timeout > c.startupTimeout /\ timeout > c.tcpTimeout
    /\ c.startupTimeout > 0 /\ c.tcpTimeout > 0
    /\ c.max > 0

\* The sum of two durations may wrap.
ValidPodStartup(c, timeout) ==
    /\ c # NoConfig
    /\ c.namespace \notin Malformed /\ c.labelKey \notin Malformed
    /\ timeout > Wrap(c.startupTimeout + c.tcpTimeout)
    /\ c.startupTimeout > 0 /\ c.tcpTimeout > 0
    /\ c.max > 0

\* Mutant: the section is optional.
MutantValidAPIServer(c, timeout) ==
    c # NoConfig =>
        /\ c.namespace \notin Malformed /\ c.labelKey \notin Malformed
        /\ timeout > c.mutateTimeout /\ timeout > c.readTimeout
        /\ c.max > 0

\* Nothing is said of time-outs that are not positive.
ValidAPIServer(c, timeout) ==
    /\ c # NoConfig
    /\ c.namespace \notin Malformed /\ c.labelKey \notin Malformed
    /\ timeout > c.mutateTimeout /\ timeout > c.readTimeout
    /\ c.max > 0

\* CheckerConfig.validate
ValidChecker(c) ==
    /\ c.name # ""
    /\ c.interval > 0 /\ c.timeout > 0
    /\ \/ c.type = "DNS" /\ ValidDNS(c.own, c.timeout)
       \/ c.type = "PodStartup" /\ ValidPodStartup(c.own, c.timeout)
       \/ c.type = "APIServer" /\ ValidAPIServer(c.own, c.timeout)
       \/ c.type \in {"AzurePolicy", "MetricsServer"}

\* Mutant: whole checkers are compared.
MutantNamesUnique == \A m, n \in DOMAIN cfg : m # n => cfg[m] # cfg[n]

NamesUnique == \A m, n \in DOMAIN cfg : m # n => cfg[m].name # cfg[n].name

\* Config.validate
Valid ==
    /\ cfg # <<>>
    /\ \A n \in DOMAIN cfg : ValidChecker(cfg[n])
    /\ NamesUnique

-----------------------------------------------------------------------------

Init ==
    /\ cfg \in Configs
    /\ stage = "parse"
    /\ next = 1
    /\ schedule = <<>> /\ skipped = {} /\ loops = <<>>

Goto(s) == stage' = s

\* ParseFromFile: the file may be missing, or no YAML of a Config.
Parse ==
    /\ stage = "parse"
    /\ Goto("failed") \/ (Valid /\ Goto("build"))
    /\ UNCHANGED <<cfg, next, schedule, skipped, loops>>

\* The builders' use of a section that may not be there.
BuilderPanics(c) == c.type \in {"DNS", "PodStartup"} /\ c.own = NoConfig

\* Only LocalDNS is skipped, where resolv.conf does not name it.
Skippable(c) == c.type = "DNS" /\ c.own.target = "LocalDNS"

\* An unregistered type, an unreadable resolv.conf, no in-cluster configuration.
Unbuildable(c) == c.type \notin {"DNS", "APIServer"} \/ Skippable(c)

\* Mutant: the loop stays where it is.
MutantBuild ==
    /\ stage = "build" /\ next <= Len(cfg)
    /\ cfg[next].type \in Types
    /\ Goto(IF BuilderPanics(cfg[next]) THEN "crashed" ELSE "build")
    /\ schedule' = Append(schedule, next)
    /\ UNCHANGED <<cfg, next, skipped, loops>>

\* The builder makes a checker of the next one, unless it panics.
Build ==
    /\ stage = "build" /\ next <= Len(cfg)
    /\ cfg[next].type \in Types
    /\ Goto(IF BuilderPanics(cfg[next]) THEN "crashed" ELSE "build")
    /\ schedule' = Append(schedule, next)
    /\ next' = next + 1
    /\ UNCHANGED <<cfg, skipped, loops>>

Skip ==
    /\ stage = "build" /\ next <= Len(cfg)
    /\ ~BuilderPanics(cfg[next]) /\ Skippable(cfg[next])
    /\ skipped' = skipped \cup {next}
    /\ next' = next + 1
    /\ UNCHANGED <<cfg, stage, schedule, loops>>

\* Any other error ends the process, whatever has been built.
BuildFails ==
    /\ stage = "build" /\ next <= Len(cfg)
    /\ ~BuilderPanics(cfg[next]) /\ Unbuildable(cfg[next])
    /\ Goto("failed")
    /\ UNCHANGED <<cfg, next, schedule, skipped, loops>>

-----------------------------------------------------------------------------
(* The scheduler.                                                          *)

\* Mutant: the closures share the loop's variable.
MutantStart ==
    /\ stage = "build" /\ next > Len(cfg)
    /\ Goto("running")
    /\ loops' = [i \in DOMAIN schedule |-> [runs |-> schedule[Len(schedule)], at |-> "new"]]
    /\ UNCHANGED <<cfg, next, schedule, skipped>>

\* Scheduler.Start: a goroutine for each schedule.
Start ==
    /\ stage = "build" /\ next > Len(cfg)
    /\ Goto("running")
    /\ loops' = [i \in DOMAIN schedule |-> [runs |-> schedule[i], at |-> "new"]]
    /\ UNCHANGED <<cfg, next, schedule, skipped>>

\* time.NewTicker panics unless the interval is positive.
NewTicker(i) ==
    /\ stage = "running" /\ loops[i].at = "new"
    /\ loops' = [loops EXCEPT ![i].at = "ticking"]
    /\ Goto(IF cfg[loops[i].runs].interval > 0 THEN "running" ELSE "crashed")
    /\ UNCHANGED <<cfg, next, schedule, skipped>>

\* The first run: the API server checker uses its section here for the first
\* time.
FirstRun(i) ==
    /\ stage = "running" /\ loops[i].at = "ticking"
    /\ loops' = [loops EXCEPT ![i].at = "ran"]
    /\ LET c == cfg[loops[i].runs]
       IN  Goto(IF c.type = "APIServer" /\ c.own = NoConfig THEN "crashed" ELSE "running")
    /\ UNCHANGED <<cfg, next, schedule, skipped>>

\* The process exits, crashes, or goes on running checkers.
Finished ==
    /\ \/ stage \in {"failed", "crashed"}
       \/ stage = "running" /\ \A i \in DOMAIN loops : loops[i].at = "ran"
    /\ UNCHANGED vars

Next ==
    \/ Parse
    \/ Build \/ Skip \/ BuildFails
    \/ Start
    \/ \E i \in DOMAIN loops : NewTicker(i) \/ FirstRun(i)
    \/ Finished

Spec == Init /\ [][Next]_vars

-----------------------------------------------------------------------------

TypeOK ==
    /\ stage \in {"parse", "build", "running", "failed", "crashed"}
    /\ next \in 1..(Len(cfg) + 1)
    /\ Len(schedule) < next
    /\ \A i \in DOMAIN schedule : schedule[i] \in DOMAIN cfg
    /\ skipped \subseteq DOMAIN cfg
    /\ \A i \in DOMAIN loops :
        loops[i] \in [runs : DOMAIN cfg, at : {"new", "ticking", "ran"}]

\* Validation covers all that later code takes for granted: no builder and no
\* first run finds its section missing, no ticker a bad interval.
NoPanic == stage # "crashed"

\* Once checkers run, each of the configuration that was not skipped runs in
\* exactly one loop, and an error lets none run.
EachRunsItsOwn ==
    /\ stage = "running" => \A n \in DOMAIN cfg \ skipped :
            Cardinality({i \in DOMAIN loops : loops[i].runs = n}) = 1
    /\ stage = "failed" => loops = <<>>

Running == {cfg[loops[i].runs] : i \in DOMAIN loops}

\* The names that label objects tell running checkers of a type apart, whatever
\* namespaces and keys they share: limits and garbage collection count on it.
SelectorsDistinct ==
    \A i, j \in DOMAIN loops :
        LET c == cfg[loops[i].runs]
            d == cfg[loops[j].runs]
        IN  i # j /\ c.type = d.type /\ c.type \in {"PodStartup", "APIServer"}
            => <<c.own.namespace, c.own.labelKey, c.name>>
                 # <<d.own.namespace, d.own.labelKey, d.name>>

\* What a run waits for fits in the run's timeout, unless the sum of a start-up
\* and a TCP time-out is too large for a duration.
BudgetsFit ==
    \A c \in Running :
        /\ c.timeout > 0
        /\ c.type = "DNS" => c.own.queryTimeout \in 1..(c.timeout - 1)
        /\ c.type = "APIServer" => /\ c.own.mutateTimeout < c.timeout
                                   /\ c.own.readTimeout < c.timeout
        /\ c.type = "PodStartup" =>
            LET sum == c.own.startupTimeout + c.own.tcpTimeout
            IN  sum < c.timeout \/ sum > MaxDuration

=============================================================================
