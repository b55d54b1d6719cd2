----------------------------- MODULE CheckerRun -----------------------------
(***************************************************************************)
(* What the runs of checkers share: the context a run gets from the        *)
(* scheduler, calls that end with it or with a time-out of their own, and  *)
(* the samples the run records.                                            *)
(*                                                                         *)
(* Time is counted in ticks, and passes only during calls. A call that has *)
(* been given up returns before the next tick.                             *)
(***************************************************************************)
EXTENDS Integers, Sequences, FiniteSets

CONSTANTS
    Timeout,        \* the checker's timeout, in ticks
    QueryTimeout,   \* dnsConfig.queryTimeout, in ticks
    TCPTimeout,     \* podStartupConfig.tcpTimeout, in ticks
    Second          \* ticks in a second

\* As validation has it.
ASSUME TimeoutAssumption ==
    /\ {Timeout, QueryTimeout, TCPTimeout, Second} \subseteq Nat \ {0}
    /\ Timeout > QueryTimeout /\ Timeout > TCPTimeout

VARIABLES
    check,      \* the checker: its type or, for DNS, its target
    pc,         \* the call the run is in, or "idle"
    ctx,        \* the run's context
    left,       \* ticks the context has left
    wait,       \* ticks the current call has taken
    down,       \* the process has been told to stop
    samples     \* what the current or the last run has recorded, in order

run == <<check, pc, ctx, left, wait, down, samples>>

\* Where the run of each checker begins.
FirstCall ==
    [CoreDNS |-> "getService", LocalDNS |-> "queryLocal",
     CoreDNSPerPod |-> "listEndpoints", AzurePolicy |-> "dryRun",
     MetricsServer |-> "listMetrics", PodStartup |-> "prepare"]

Queries == {"queryService", "queryPod", "queryLocal"}
Calls ==
    {FirstCall[c] : c \in DOMAIN FirstCall} \cup Queries
        \cup {"listEndpoints", "createPod", "poll", "sleep", "listEvents",
              "getPodIP", "dial"}

\* The labels of a sample for a check's outcome: healthy, an error, skipped, or
\* a code.
Labels(o) ==
    CASE o = "Healthy" -> <<"Healthy", "Healthy">>
      [] o = "error" -> <<"Unknown", "Unknown">>
      [] o = "Skipped" -> <<"", "">>
      [] OTHER -> <<"Unhealthy", o>>

\* A sample is about an endpoint (by its place in the list), or about the
\* checker.
Sample(n, o) == [about |-> n, status |-> Labels(o)[1], code |-> Labels(o)[2]]
Checker == 0

RunInit ==
    /\ check \in DOMAIN FirstCall
    /\ pc = "idle"
    /\ ctx = "live"
    /\ left = 0
    /\ wait = 0
    /\ down = FALSE
    /\ samples = <<>>

\* The scheduler may start a run after the signal, on a dead context.
BeginRun ==
    /\ pc = "idle"
    /\ pc' = FirstCall[check]
    /\ ctx' = IF down THEN "cancelled" ELSE "live"
    /\ left' = Timeout
    /\ wait' = 0
    /\ samples' = <<>>
    /\ UNCHANGED <<check, down>>

\* The run ends with outcome o.
Return(o) ==
    /\ pc' = "idle"
    /\ samples' = Append(samples, Sample(Checker, o))
    /\ UNCHANGED <<check, ctx, left, wait, down>>

\* The run makes its next call.
NextCall(call) ==
    /\ pc' = call
    /\ wait' = 0
    /\ UNCHANGED <<check, ctx, left, down>>

-----------------------------------------------------------------------------
(* How a call ends.                                                        *)

\* Mutant: queries have no time-out of their own.
MutantLimit == IF pc = "sleep" THEN Second ELSE Timeout

\* lookupHost gives each query a context of its own, the dialer has a time-out,
\* and the poll of the Pod sleeps for a second.
Limit ==
    CASE pc \in Queries -> QueryTimeout
      [] pc = "dial" -> TCPTimeout
      [] pc = "sleep" -> Second
      [] OTHER -> Timeout

\* Mutant: the calls are not given the run's context.
MutantTimedOut == wait >= Limit

TimedOut == ctx = "expired" \/ wait >= Limit
CutOff == TimedOut \/ ctx = "cancelled"

\* An answer comes in time. Whether the caller sees a context.DeadlineExceeded
\* when none does depends on the time-outs; any other error is always possible.
Answered == ~CutOff
Fails(err) == (err = "deadline" /\ TimedOut) \/ err = "other"

\* Why a call fails that fails now.
Why == IF wait >= Limit THEN "silent" ELSE IF ctx = "live" THEN "error" ELSE "cut"

Tick ==
    /\ pc # "idle"
    /\ ctx = "live" /\ wait < Limit
    /\ left' = left - 1
    /\ wait' = wait + 1
    /\ ctx' = IF left = 1 THEN "expired" ELSE ctx
    /\ UNCHANGED <<check, pc, down, samples>>

\* The signal cancels the context of a run in progress.
Shutdown ==
    /\ ~down
    /\ down' = TRUE
    /\ ctx' = IF ctx = "live" THEN "cancelled" ELSE ctx
    /\ UNCHANGED <<check, pc, left, wait, samples>>

=============================================================================
