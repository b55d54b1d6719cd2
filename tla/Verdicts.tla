------------------------------ MODULE Verdicts ------------------------------
(***************************************************************************)
(* What the samples of the DNS, Azure Policy, metrics server and pod       *)
(* startup checkers are worth: a status says something of the component    *)
(* only if the run asked it and gave it the time to answer. Each checker   *)
(* runs by itself; all end with the process.                               *)
(***************************************************************************)
EXTENDS DNSChecker, AzurePolicyChecker, MetricsServerChecker, PodStartupVerdict

vars == <<run, dns, policy, served, startup>>

Init == RunInit /\ DNSInit /\ PolicyInit /\ MetricsInit /\ StartupInit

StartRun == BeginRun /\ DNSReset /\ PolicyReset /\ MetricsReset /\ StartupReset

\* A step of the run.
CheckStep ==
    \/ DNSStep /\ UNCHANGED <<policy, served, startup>>
    \/ PolicyStep /\ UNCHANGED <<dns, served, startup>>
    \/ ListMetrics /\ UNCHANGED <<dns, policy, startup>>
    \/ StartupStep /\ UNCHANGED <<dns, policy, served>>

\* A step that nobody has to answer for.
GiveUp == CutOff /\ CheckStep

Next ==
    \/ StartRun
    \/ CheckStep
    \/ PodStep /\ UNCHANGED <<run, dns, policy, served>>
    \/ (Tick \/ Shutdown) /\ UNCHANGED <<dns, policy, served, startup>>

Spec == Init /\ [][Next]_vars

\* Time passes, and a call that is given up returns. Nothing need ever answer.
FairSpec ==
    /\ Spec
    /\ WF_vars(Tick /\ UNCHANGED <<dns, policy, served, startup>>)
    /\ WF_vars(GiveUp)

-----------------------------------------------------------------------------

Codes == {"Healthy", "Unknown", "ServiceNotReady", "ServiceTimeout",
          "ServiceError", "PodsNotReady", "PodTimeout", "PodError",
          "LocalDNSTimeout", "LocalDNSError", "AzurePolicyEnforcementMissing",
          "MetricsServerTimeout", "MetricsServerUnavailable",
          "PodCreationTimeout", "PodCreationError", "PodStartupDurationExceeded",
          "RequestTimeout", "RequestFailed", ""}

TypeOK ==
    /\ check \in DOMAIN FirstCall
    /\ pc \in Calls \cup {"idle"}
    /\ ctx \in {"live", "expired", "cancelled"}
    /\ left \in 0..Timeout
    /\ (ctx = "expired") => left = 0
    /\ wait \in 0..Limit
    /\ down \in BOOLEAN
    /\ \A i \in DOMAIN samples :
        samples[i] \in [about : 0..Len(endpoints),
                        status : {"Healthy", "Unhealthy", "Unknown", ""}, code : Codes]
    /\ pc = "queryPod" => e \in Queried(endpoints) /\ a \in 1..endpoints[e].addresses
    /\ budget \in 0..Timeout
    /\ {named, violation, served, connected, missed} \subseteq BOOLEAN
    /\ phase \in 0..(Second - 1)
    /\ event \in BOOLEAN /\ allotted \in 0..Timeout
    /\ {born, pulling, pulled, started} \subseteq -1..(phase + Timeout)

\* All addresses of the endpoint at place n have answered.
Heard(n) == \A i \in 1..endpoints[n].addresses : <<n, i>> \in answered

\* A healthy sample is earned: in the same run every query it stands for was
\* answered within its time-out, Azure Policy reported a violation (unless the
\* checker's own name lets other messages pass for its), the API was served, the
\* Pod's container ran and took a connection, and the event told what its image
\* pull took.
HealthyIsEarned ==
    \A i \in DOMAIN samples : samples[i].status = "Healthy" =>
        CASE check = "CoreDNS" ->
                /\ <<0, 0>> \in answered
                /\ \E n \in DOMAIN endpoints : Ready(endpoints[n])
                /\ \A n \in DOMAIN endpoints : Ready(endpoints[n]) => Heard(n)
          [] check = "CoreDNSPerPod" -> Heard(samples[i].about)
          [] check = "LocalDNS" -> <<0, 0>> \in answered
          [] check = "AzurePolicy" -> violation \/ named
          [] check = "MetricsServer" -> served
          [] check = "PodStartup" -> connected /\ started # None /\ event

\* Nobody is blamed for another: an endpoint's bad sample comes from a query of
\* that endpoint, and a reported violation or a served list is never unhealthy.
BlameHasCause ==
    \A i \in DOMAIN samples : samples[i].status # "Healthy" =>
        CASE check = "CoreDNSPerPod" -> \E f \in faults : f[1] = samples[i].about
          [] check = "AzurePolicy" -> ~violation
          [] check = "MetricsServer" -> ~served
          [] OTHER -> TRUE

\* The ticks that the queries up to place n take at most.
Demand(n) ==
    QueryTimeout * Cardinality(UNION {{m} \X (1..endpoints[m].addresses) :
                                      m \in {k \in Queried(endpoints) : k <= n}})

\* A time-out is the endpoint's own: whoever's queries, with those before them,
\* fit in what the run had left after the list is only reported as timed out
\* after being silent for QueryTimeout. Beyond that the context cuts queries
\* off, and an endpoint is reported that was given no time.
TimeoutIsEarned ==
    \A i \in DOMAIN samples :
        LET n == IF check = "CoreDNS" THEN e ELSE samples[i].about
        IN  CASE samples[i].code = "PodTimeout" ->
                    Demand(n) <= budget => <<n, "silent">> \in faults
              [] samples[i].code = "LocalDNSTimeout" -> <<0, "silent">> \in faults
              [] OTHER -> TRUE

\* How long the Pod's image pull has taken, and its start-up otherwise.
Pulling ==
    IF pulled # None THEN pulled ELSE IF pulling # None THEN Now - pulling ELSE 0
Startup == (IF started # None THEN started ELSE Now) - born - Pulling

\* The least whole number of seconds that is no less than the limit. Rounded
\* measures below the one are those below the other.
WholeLimit == ToSecond(StartupTimeout + Second - 1)

\* The verdict on a start-up is right up to the rounding. A limit that is no whole
\* number of seconds counts as the next one: healthy means less than half a second
\* above that, exceeded less than one and a half below. The latter holds of a Pod that
\* no poll found running too, if the run had time for the limit, the image pull and a
\* poll left when it created the Pod, and no poll failed.
StartupIsMeasured ==
    \A i \in DOMAIN samples :
        CASE samples[i].code = "PodStartupDurationExceeded" ->
                (\/ ctx # "expired"
                 \/ ~missed /\ allotted >= StartupTimeout + Pulling + Second)
                => 2 * Startup > 2 * WholeLimit - 3 * Second
          [] check = "PodStartup" /\ samples[i].code = "Healthy" ->
                2 * Startup < 2 * WholeLimit + Second
          [] OTHER -> TRUE

\* A run ends with exactly one sample about the checker or, per pod, with one
\* about every ready endpoint that names its pod, in order, whatever became of
\* those before it.
Reported ==
    IF check = "CoreDNSPerPod"
      THEN /\ Len(samples) = Cardinality(Queried(endpoints))
           /\ \A n \in Queried(endpoints) :
                samples[Cardinality({m \in Queried(endpoints) : m <= n})].about = n
      ELSE Len(samples) = 1 /\ samples[1].about = Checker
EveryRunReports == [][pc # "idle" /\ pc' = "idle" => Reported']_vars

\* Whatever does not answer, a run ends.
RunEnds == pc # "idle" ~> pc = "idle"

=============================================================================
