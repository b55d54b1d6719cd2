-------------------------- MODULE Verdicts_proofs --------------------------
(***************************************************************************)
(* Theorems about Verdicts: for all time-outs, all lengths of a second and *)
(* all lists of endpoints, what is recorded is true.                       *)
(***************************************************************************)
EXTENDS Verdicts, SetLemmas, FiniteSetTheorems, TLAPS

Checks == {"CoreDNS", "CoreDNSPerPod", "LocalDNS", "AzurePolicy", "MetricsServer",
           "PodStartup"}

StartupCalls == {"prepare", "createPod", "poll", "sleep", "listEvents", "getPodIP", "dial"}

\* Each checker makes its own calls.
Where ==
    /\ pc \in {"getService", "queryService"} => check = "CoreDNS"
    /\ pc \in {"listEndpoints", "queryPod"} => check \in {"CoreDNS", "CoreDNSPerPod"}
    /\ pc = "queryLocal" => check = "LocalDNS"
    /\ pc = "dryRun" => check = "AzurePolicy"
    /\ pc = "listMetrics" => check = "MetricsServer"
    /\ pc \in StartupCalls => check = "PodStartup"

\* The context of a run is live just as long as there is time left.
RunOK ==
    /\ check \in Checks
    /\ pc \in {"idle", "getService", "queryService", "listEndpoints", "queryPod",
               "queryLocal", "dryRun", "listMetrics"} \cup StartupCalls
    /\ ctx \in {"live", "expired", "cancelled"}
    /\ left \in 0..Timeout
    /\ ctx = "expired" => left = 0
    /\ ctx = "live" /\ pc # "idle" => left > 0
    /\ wait \in 0..Limit
    /\ left + wait <= Timeout
    /\ down \in BOOLEAN
    /\ Where

\* The outcomes of all checkers.
Outcomes == (Codes \ {"Unknown", ""}) \cup {"error", "Skipped"}

\* Which checkers have an outcome, of those that properties are about.
Fits(o) ==
    /\ o = "PodStartupDurationExceeded" => check = "PodStartup"
    /\ o = "PodTimeout" => check \in {"CoreDNS", "CoreDNSPerPod"}
    /\ o = "LocalDNSTimeout" => check = "LocalDNS"

\* A run records nothing before it ends, or one endpoint after the other.
SamplesOK ==
    /\ samples \in Seq({Sample(n, o) : n \in 0..Len(endpoints),
                                       o \in {u \in Outcomes : Fits(u)}})
    /\ pc # "idle" /\ check # "CoreDNSPerPod" => samples = <<>>
    /\ check # "CoreDNSPerPod" => DOMAIN samples \subseteq {1}
    /\ pc = "listEndpoints" => samples = <<>>

DNSOK ==
    /\ endpoints \in EndpointLists \cup {<<>>}
    /\ pc = "queryPod" => e \in Queried(endpoints) /\ a \in 1..endpoints[e].addresses
    /\ budget \in 0..Timeout

FlagsOK ==
    /\ named \in BOOLEAN /\ violation \in BOOLEAN /\ served \in BOOLEAN
    /\ connected \in BOOLEAN /\ missed \in BOOLEAN /\ event \in BOOLEAN

StartupOK ==
    /\ phase \in 0..(Second - 1)
    /\ allotted \in 0..Timeout
    /\ born \in -1..(phase + Timeout) /\ pulling \in -1..(phase + Timeout)
    /\ pulled \in -1..(phase + Timeout) /\ started \in -1..(phase + Timeout)
    /\ pulling <= Now

Control == RunOK /\ SamplesOK /\ DNSOK /\ FlagsOK /\ StartupOK

-----------------------------------------------------------------------------
(* Operators.                                                              *)

\* FirstCall is a record with a field for each checker.
LEMMA FirstCalls ==
    /\ DOMAIN FirstCall = Checks
    /\ FirstCall["CoreDNS"] = "getService"
    /\ FirstCall["CoreDNSPerPod"] = "listEndpoints"
    /\ FirstCall["LocalDNS"] = "queryLocal"
    /\ FirstCall["AzurePolicy"] = "dryRun"
    /\ FirstCall["MetricsServer"] = "listMetrics"
    /\ FirstCall["PodStartup"] = "prepare"
  BY DEF FirstCall, Checks

\* All calls have a checker.
LEMMA CallsAre ==
    Calls \cup {"idle"} = {"idle", "getService", "queryService", "listEndpoints",
        "queryPod", "queryLocal", "dryRun", "listMetrics"} \cup StartupCalls
<1>1. {FirstCall[c] : c \in DOMAIN FirstCall} =
        {"getService", "listEndpoints", "queryLocal", "dryRun", "listMetrics", "prepare"}
  BY FirstCalls DEF Checks
<1> QED
  BY <1>1 DEF Calls, Queries, StartupCalls

\* The labels are among those there are.
LEMMA LabelsAre ==
    ASSUME NEW o \in Outcomes
    PROVE  /\ Labels(o)[1] \in {"Healthy", "Unhealthy", "Unknown", ""}
           /\ Labels(o)[2] \in Codes
<1>1. CASE o \notin {"Healthy", "error", "Skipped"}
  <2>1. Labels(o)[1] = "Unhealthy" /\ Labels(o)[2] = o
    BY <1>1 DEF Labels
  <2>2. o \in Codes
    BY <1>1 DEF Outcomes
  <2> QED
    BY <2>1, <2>2
<1>2. CASE o \in {"Healthy", "error", "Skipped"}
  BY <1>2 DEF Labels, Codes
<1> QED
  BY <1>1, <1>2

\* What labels tell of an outcome.
LEMMA SampleIs ==
    ASSUME NEW n, NEW o
    PROVE  /\ Sample(n, o).about = n
           /\ Sample(n, o).status = "Healthy" <=> o = "Healthy"
           /\ Sample(n, o).code = "Healthy" <=> o = "Healthy"
           /\ \A c \in {"PodTimeout", "LocalDNSTimeout", "PodStartupDurationExceeded"} :
                Sample(n, o).code = c <=> o = c
  BY DEF Sample, Labels

\* What appending does to a sequence.
LEMMA AppendIs ==
    ASSUME NEW S, NEW s \in Seq(S), NEW x
    PROVE  /\ x \in S => Append(s, x) \in Seq(S)
           /\ Len(Append(s, x)) = Len(s) + 1
           /\ DOMAIN Append(s, x) = 1..(Len(s) + 1)
           /\ Append(s, x)[Len(s) + 1] = x
           /\ \A i \in DOMAIN s : Append(s, x)[i] = s[i]
  OBVIOUS

\* Min is the least element, where there is one.
LEMMA MinIs ==
    ASSUME NEW S \in SUBSET Nat, S # {}
    PROVE  Min(S) \in S /\ \A n \in S : Min(S) <= n
  BY LeastNat DEF Min

\* A call takes time.
LEMMA LimitIs == Limit \in Nat \ {0}
  BY TimeoutAssumption DEF Limit


\* The list of endpoints is a sequence.
Listed ==
    /\ Len(endpoints) \in Nat /\ DOMAIN endpoints = 1..Len(endpoints)
    /\ \A n \in DOMAIN endpoints : endpoints[n].addresses \in Nat \ {0}

LEMMA EndpointsAre == DNSOK => Listed
<1> SUFFICES ASSUME DNSOK PROVE Listed
  OBVIOUS
<1> USE DEF Listed
<1>1. ASSUME NEW l \in EndpointLists
      PROVE  /\ Len(l) \in Nat /\ DOMAIN l = 1..Len(l)
             /\ \A n \in DOMAIN l : l[n].addresses \in Nat \ {0}
  <2>1. l \in Seq({l[n] : n \in DOMAIN l})
    BY EndpointsAssumption
  <2>2. \A n \in DOMAIN l : l[n].addresses \in Nat \ {0}
    BY EndpointsAssumption
  <2> QED
    BY <2>1, <2>2
<1>2. CASE endpoints = <<>>
  BY <1>2
<1> QED
  BY <1>1, <1>2 DEF DNSOK

-----------------------------------------------------------------------------
(* Type correctness.                                                       *)

\* What every step of a run does to the run: it goes on or ends, and records
\* nothing, its outcome or, per pod, that of the endpoint it has queried.
GoesOn ==
    /\ pc # "idle" /\ UNCHANGED <<check, ctx, left, down>>
    /\ \/ pc' = "idle" /\ UNCHANGED wait
       \/ pc' \in Calls /\ pc' # "idle" /\ wait' = 0
    /\ Where'
    /\ pc' = "listEndpoints" => check = "CoreDNS"
    /\ \/ UNCHANGED samples /\ (pc' = "idle" => check = "CoreDNSPerPod")
       \/ /\ pc' = "idle" /\ check # "CoreDNSPerPod"
          /\ \E o \in Outcomes : Fits(o) /\ samples' = Append(samples, Sample(Checker, o))
       \/ /\ pc = "queryPod" /\ check = "CoreDNSPerPod"
          /\ \E o \in Outcomes : Fits(o) /\ samples' = Append(samples, Sample(e, o))

LEMMA CheckGoesOn == Control /\ CheckStep => GoesOn
<1> SUFFICES ASSUME Control, CheckStep PROVE GoesOn
  OBVIOUS
<1> USE CallsAre DEF Outcomes, Codes, StartupCalls
<1>1. RunOK /\ Where
  BY DEF Control, RunOK
<1>2. ASSUME pc # "idle", NEW o \in Outcomes, Fits(o), check # "CoreDNSPerPod", Return(o)
      PROVE  GoesOn
  BY <1>1, <1>2 DEF GoesOn, Return, Where
<1>3. ASSUME pc # "idle", NEW c \in Calls \ {"idle"}, NextCall(c), Where',
             c = "listEndpoints" => check = "CoreDNS", UNCHANGED samples
      PROVE  GoesOn
  BY <1>1, <1>3 DEF GoesOn, NextCall
<1>4. ASSUME pc \in {"listEndpoints", "queryPod"}, NEW n, NEW l, NEW smps, GoOn(n, l, smps),
             \/ smps = samples
             \/ /\ pc = "queryPod" /\ check = "CoreDNSPerPod"
                /\ \E o \in Outcomes : Fits(o) /\ smps = Append(samples, Sample(e, o))
      PROVE  GoesOn
  BY <1>1, <1>4 DEF GoesOn, GoOn, NextCall, Where, Fits
<1>5. CASE GetService
  BY <1>1, <1>2, <1>3, <1>5 DEF GetService, Where, Fits, NextCall
<1>6. CASE QueryService
  BY <1>1, <1>2, <1>3, <1>6 DEF QueryService, Where, Fits, NextCall
<1>7. CASE QueryLocalDNS
  BY <1>1, <1>2, <1>3, <1>7 DEF QueryLocalDNS, Where, Fits, NextCall
<1>8. CASE ListEndpoints
  <2>1. CASE check = "CoreDNSPerPod" /\ pc' = "idle"
             /\ UNCHANGED <<check, ctx, left, wait, down, samples>>
    BY <1>1, <1>8, <2>1 DEF GoesOn, Where, ListEndpoints
  <2>2. CASE check = "CoreDNS" /\ (Return("PodsNotReady") \/ Return("error"))
    BY <1>1, <1>2, <1>8, <2>2 DEF ListEndpoints, Fits
  <2>3. CASE \E l \in EndpointLists : GoOn(0, l, samples)
    BY <1>4, <1>8, <2>3 DEF ListEndpoints
  <2> QED
    BY <1>1, <1>8, <2>1, <2>2, <2>3 DEF ListEndpoints, Where
<1>9. CASE QueryPodAnswered
  <2>1. CASE NextCall("queryPod") /\ UNCHANGED samples
    BY <1>1, <1>3, <1>9, <2>1 DEF QueryPodAnswered, NextCall, Where
  <2>2. CASE GoOn(e, endpoints, samples)
    BY <1>4, <1>9, <2>2 DEF QueryPodAnswered
  <2>3. CASE check = "CoreDNSPerPod"
             /\ GoOn(e, endpoints, Append(samples, Sample(e, "Healthy")))
    BY <1>4, <1>9, <2>3 DEF QueryPodAnswered, Fits
  <2> QED
    BY <1>1, <1>9, <2>1, <2>2, <2>3 DEF QueryPodAnswered, Where
<1>10. CASE QueryPodFails
  <2>1. CASE check = "CoreDNS" /\ (Return("PodTimeout") \/ Return("PodError"))
    BY <1>1, <1>2, <1>10, <2>1 DEF QueryPodFails, Fits
  <2>2. CASE check = "CoreDNSPerPod" /\
             \E o \in {"PodTimeout", "error"} :
                GoOn(e, endpoints, Append(samples, Sample(e, o)))
    BY <1>4, <1>10, <2>2 DEF QueryPodFails, Fits
  <2> QED
    BY <1>1, <1>10, <2>1, <2>2 DEF QueryPodFails, Where
<1>11. CASE PolicyStep
  BY <1>1, <1>2, <1>11 DEF PolicyStep, NewClientFails, DryRun, Verdict, Where, Fits
<1>12. CASE ListMetrics
  BY <1>1, <1>2, <1>12 DEF ListMetrics, Where, Fits
<1>13. CASE Prepare \/ CreateVerdictPod
  BY <1>1, <1>2, <1>3, <1>13 DEF Prepare, CreateVerdictPod, Where, Fits, NextCall
<1>14. CASE Poll \/ Wake
  BY <1>1, <1>3, <1>14 DEF Poll, Wake, Where, NextCall, startup, thePod
<1>15. CASE PollEnds \/ ListEvents
  BY <1>1, <1>2, <1>3, <1>15 DEF PollEnds, ListEvents, Where, Fits, NextCall
<1>16. CASE GetPodIP \/ Dial
  BY <1>1, <1>2, <1>3, <1>16 DEF GetPodIP, Dial, Where, Fits, NextCall
<1> QED
  BY <1>5, <1>6, <1>7, <1>8, <1>9, <1>10, <1>11, <1>12, <1>13, <1>14, <1>15, <1>16
     DEF CheckStep, DNSStep, StartupStep

LEMMA NextRunOK == Control /\ [Next]_vars => RunOK'
<1> SUFFICES ASSUME Control, [Next]_vars PROVE RunOK'
  OBVIOUS
<1> USE DEF Control, RunOK
<1>0. Limit' \in Nat \ {0}
  <2>1. (Limit \in Nat \ {0})'
    BY LimitIs, PTL
  <2> QED
    BY <2>1
<1>1. CASE StartRun
  BY <1>0, <1>1, FirstCalls, LimitIs, TimeoutAssumption
     DEF StartRun, BeginRun, Where, StartupCalls, Checks
<1>2. CASE CheckStep
  <2>1. GoesOn
    BY <1>2, CheckGoesOn
  <2>2. wait' \in 0..Limit'
    <3>1. CASE UNCHANGED wait /\ pc' = "idle"
      <4>1. Limit' = Timeout
        BY <3>1 DEF Limit, Queries
      <4> QED
        BY <2>1, <3>1, <4>1, LimitIs, TimeoutAssumption DEF GoesOn
    <3>2. CASE wait' = 0
      BY <1>0, <3>2, TimeoutAssumption
    <3> QED
      BY <2>1, <3>1, <3>2 DEF GoesOn
  <2>3. wait' \in 0..wait
    BY <2>1, LimitIs DEF GoesOn
  <2>4. left' + wait' <= Timeout
    BY <2>1, <2>3, LimitIs, TimeoutAssumption DEF GoesOn
  <2> QED
    BY <2>1, <2>2, <2>4, CallsAre DEF GoesOn
<1>3. CASE Tick
  <2>1. UNCHANGED Limit
    BY <1>3 DEF Tick, Limit
  <2> QED
    BY <1>3, <2>1, LimitIs, TimeoutAssumption DEF Tick, Where
<1>4. CASE Shutdown
  BY <1>4 DEF Shutdown, Where, Limit
<1>5. CASE UNCHANGED run
  BY <1>5 DEF run, Where, Limit
<1> QED
  BY <1>1, <1>2, <1>3, <1>4, <1>5 DEF Next, vars

\* Only a step of a run changes what it has recorded, and only listing the
\* endpoints and a new run what is known of them.
LEMMA NextSamplesOK == Control /\ DNSOK' /\ [Next]_vars => SamplesOK'
<1> SUFFICES ASSUME Control, DNSOK', [Next]_vars PROVE SamplesOK'
  OBVIOUS
<1> DEFINE All(k) == {Sample(n, o) : n \in 0..k, o \in {u \in Outcomes : Fits(u)}}
<1>1. Len(endpoints) \in Nat /\ Len(endpoints') \in Nat
  <2>1. (DNSOK => Listed)'
    BY EndpointsAre, PTL
  <2> QED
    BY <2>1, EndpointsAre DEF Control, Listed
<1>2. CASE StartRun
  BY <1>2, <1>1, FirstCalls DEF StartRun, BeginRun, SamplesOK
<1>3. CASE CheckStep
  <2>1. GoesOn
    BY <1>3, CheckGoesOn
  <2>2. samples # <<>> => UNCHANGED endpoints
    BY <1>3 DEF Control, SamplesOK, CheckStep, DNSStep, GetService, QueryService, QueryLocalDNS,
                ListEndpoints, QueryPodAnswered, QueryPodFails, dns
  <2>3. samples \in Seq(All(Len(endpoints')))
    <3>1. CASE samples = <<>>
      BY <3>1
    <3>2. CASE UNCHANGED endpoints
      BY <3>2 DEF Control, SamplesOK
    <3> QED
      BY <2>2, <3>1, <3>2
  <2>4. \A u : Fits(u)' <=> Fits(u)
    BY <2>1 DEF GoesOn, Fits
  <2>5. CASE UNCHANGED samples
    BY <2>1, <2>3, <2>4, <2>5 DEF Control, SamplesOK, GoesOn
  <2>6. ASSUME NEW o \in Outcomes, Fits(o), NEW n \in 0..Len(endpoints'),
               samples' = Append(samples, Sample(n, o))
        PROVE  samples' \in Seq(All(Len(endpoints')))
    <3>1. Sample(n, o) \in All(Len(endpoints'))
      BY <2>6
    <3> HIDE DEF All
    <3> QED
      BY <2>3, <2>6, <3>1, AppendIs
  <2>7. CASE pc' = "idle" /\ check # "CoreDNSPerPod" /\
             \E o \in Outcomes : Fits(o) /\ samples' = Append(samples, Sample(Checker, o))
    <3>1. samples = <<>>
      BY <2>1, <2>7 DEF Control, SamplesOK, GoesOn
    <3>2. DOMAIN samples' = {1}
      BY <2>7, <3>1
    <3>3. samples' \in Seq(All(Len(endpoints')))
      BY <2>6, <2>7, <1>1 DEF Checker
    <3> QED
      BY <2>1, <2>4, <2>7, <3>2, <3>3 DEF SamplesOK, GoesOn
  <2>8. CASE pc = "queryPod" /\ check = "CoreDNSPerPod" /\
             \E o \in Outcomes : Fits(o) /\ samples' = Append(samples, Sample(e, o))
    <3>1. e \in DOMAIN endpoints /\ UNCHANGED endpoints
      BY <1>3, <2>8 DEF Control, DNSOK, Queried, CheckStep, DNSStep, GetService, QueryService,
               QueryLocalDNS, ListEndpoints, QueryPodAnswered, QueryPodFails, dns
    <3>2. e \in 0..Len(endpoints')
      BY <1>1, <3>1, EndpointsAre DEF Control, Listed
    <3>3. samples' \in Seq(All(Len(endpoints')))
      BY <2>6, <2>8, <3>2
    <3> QED
      BY <2>1, <2>4, <2>8, <3>3 DEF SamplesOK, GoesOn
  <2> QED
    BY <2>1, <2>5, <2>7, <2>8 DEF GoesOn
<1>4. CASE Tick /\ UNCHANGED dns
  BY <1>4 DEF Tick, Control, SamplesOK, Fits, dns
<1>5. CASE Shutdown /\ UNCHANGED dns
  BY <1>5 DEF Shutdown, Control, SamplesOK, Fits, dns
<1>6. CASE UNCHANGED <<run, dns>>
  BY <1>6 DEF run, dns, Control, SamplesOK, Fits
<1> QED
  BY <1>2, <1>3, <1>4, <1>5, <1>6 DEF Next, vars

\* The loops over the endpoints stay within the list.
LEMMA NextDNSOK == Control /\ [Next]_vars => DNSOK'
<1> SUFFICES ASSUME Control, [Next]_vars PROVE DNSOK'
  OBVIOUS
<1> USE DEF Control, DNSOK, RunOK
<1>1. CASE StartRun
  BY <1>1, FirstCalls, TimeoutAssumption DEF StartRun, BeginRun, DNSReset, Checks
<1>2. ASSUME NEW l \in EndpointLists \cup {<<>>}, NEW n \in Nat, NEW smps, endpoints' = l,
             GoOn(n, l, smps), budget' \in 0..Timeout
      PROVE  DNSOK'
  <2>1. \A m \in DOMAIN l : m \in Nat /\ l[m].addresses \in Nat \ {0}
    <3>1. CASE l \in EndpointLists
      <4>1. l \in Seq({l[m] : m \in DOMAIN l})
        BY <3>1, EndpointsAssumption
      <4>2. DOMAIN l \subseteq Nat
        BY <4>1
      <4> QED
        BY <3>1, <4>2, EndpointsAssumption
    <3>2. CASE l = <<>>
      BY <3>2
    <3> QED
      BY <3>1, <3>2
  <2>2. CASE Later(n, l) # {}
    <3>1. Later(n, l) \in SUBSET Nat
      BY <2>1 DEF Later, Queried
    <3>2. e' \in Later(n, l)
      BY <1>2, <2>2, <3>1, MinIs DEF GoOn
    <3>3. e' \in Queried(l)' /\ a' = 1
      BY <1>2, <2>2, <3>2 DEF GoOn, NextCall, Later, Queried
    <3>4. endpoints'[e'].addresses \in Nat \ {0}
      BY <1>2, <2>1, <3>2 DEF Later, Queried
    <3> QED
      BY <1>2, <3>3, <3>4
  <2>3. CASE Later(n, l) = {}
    BY <1>2, <2>3 DEF GoOn
  <2> QED
    BY <2>2, <2>3
<1>3. CASE GetService \/ QueryService \/ QueryLocalDNS
  BY <1>3 DEF GetService, QueryService, QueryLocalDNS, dns, Return, NextCall
<1>4. CASE ListEndpoints
  BY <1>2, <1>4 DEF ListEndpoints, Return
<1>5. CASE QueryPodAnswered
  <2>1. CASE a < endpoints[e].addresses /\ a' = a + 1 /\ NextCall("queryPod")
    BY <1>5, <2>1, EndpointsAre DEF QueryPodAnswered, NextCall, Queried, Listed
  <2>2. CASE \E smps : GoOn(e, endpoints, smps)
    BY <1>2, <1>5, <2>2, EndpointsAre DEF QueryPodAnswered, Queried, Listed
  <2> QED
    BY <1>5, <2>1, <2>2 DEF QueryPodAnswered
<1>6. CASE QueryPodFails
  <2>1. CASE pc' = "idle"
    BY <1>6, <2>1 DEF QueryPodFails
  <2>2. CASE \E smps : GoOn(e, endpoints, smps)
    BY <1>2, <1>6, <2>2, EndpointsAre DEF QueryPodFails, Queried, Listed
  <2> QED
    BY <1>6, <2>1, <2>2 DEF QueryPodFails, Return
<1>7. CASE CheckStep /\ (PolicyStep \/ ListMetrics \/ StartupStep) /\ UNCHANGED dns
  <2>1. GoesOn
    BY <1>7, CheckGoesOn
  <2>2. check \in {"AzurePolicy", "MetricsServer", "PodStartup"}
    BY <1>7 DEF Where, PolicyStep, NewClientFails, DryRun, ListMetrics, StartupStep, Prepare,
                CreateVerdictPod, Poll, Wake, PollEnds, ListEvents, GetPodIP, Dial, StartupCalls
  <2> QED
    BY <1>7, <2>1, <2>2 DEF GoesOn, Where, dns
<1>8. CASE (Tick \/ Shutdown) /\ UNCHANGED dns
  BY <1>8 DEF Tick, Shutdown, dns, Queried
<1>9. CASE UNCHANGED <<run, dns>>
  BY <1>9 DEF run, dns, Queried
<1> QED
  BY <1>1, <1>3, <1>4, <1>5, <1>6, <1>7, <1>8, <1>9 DEF Next, vars, CheckStep, DNSStep

\* What is told apart by flags.
LEMMA NextFlagsOK == Control /\ [Next]_vars => FlagsOK'
<1> SUFFICES ASSUME FlagsOK, [Next]_vars PROVE FlagsOK'
  BY DEF Control
<1> USE DEF FlagsOK
<1>1. CASE StartRun
  BY <1>1 DEF StartRun, PolicyReset, MetricsReset, StartupReset
<1>2. CASE CheckStep
  <2>1. CASE UNCHANGED <<policy, served, startup>>
    BY <2>1 DEF policy, startup
  <2>2. CASE PolicyStep /\ UNCHANGED <<dns, served, startup>>
    BY <2>2 DEF startup, PolicyStep, NewClientFails, DryRun, policy
  <2>3. CASE ListMetrics /\ UNCHANGED <<dns, policy, startup>>
    BY <2>3 DEF policy, startup, ListMetrics
  <2>4. CASE StartupStep /\ UNCHANGED <<dns, policy, served>>
    BY <2>4 DEF policy, startup, thePod, StartupStep, Prepare, CreateVerdictPod, Poll,
                Wake, PollEnds, ListEvents, GetPodIP, Dial
  <2> QED
    BY <1>2, <2>1, <2>2, <2>3, <2>4 DEF CheckStep
<1>3. CASE PodStep /\ UNCHANGED <<run, dns, policy, served>>
  BY <1>3 DEF policy, PodStep, BeginPull, EndPull, StartContainer, StoreEvent
<1>4. CASE UNCHANGED <<policy, served, startup>>
  BY <1>4 DEF policy, startup
<1> QED
  BY <1>1, <1>2, <1>3, <1>4 DEF Next, vars

\* The Pod's times are in the run's.
LEMMA NextStartupOK == Control /\ [Next]_vars => StartupOK'
<1> SUFFICES ASSUME Control, [Next]_vars PROVE StartupOK'
  OBVIOUS
<1> USE TimeoutAssumption DEF StartupOK, None, Now
<1>0. /\ StartupOK /\ left \in 0..Timeout
      /\ phase + Timeout \in Nat /\ Now \in phase..(phase + Timeout)
  BY DEF Control, RunOK
<1>1. CASE StartRun
  BY <1>1 DEF StartRun, BeginRun, StartupReset
<1>2. CASE CheckStep
  <2>1. left' = left
    BY <1>2, CheckGoesOn DEF GoesOn
  <2>2. CASE UNCHANGED startup
    BY <1>0, <2>1, <2>2 DEF startup
  <2>3. CASE CreateVerdictPod
    BY <1>0, <2>1, <2>3 DEF CreateVerdictPod
  <2>4. UNCHANGED startup \/ CreateVerdictPod
          \/ UNCHANGED <<thePod, phase, allotted>>
    BY <1>2 DEF CheckStep, startup, StartupStep, Prepare, Poll, Wake, PollEnds, ListEvents,
                GetPodIP, Dial
  <2> QED
    BY <1>0, <2>1, <2>2, <2>3, <2>4 DEF thePod
<1>3. CASE PodStep /\ UNCHANGED <<run, dns, policy, served>>
  <2>1. UNCHANGED <<left, phase, allotted>>
    BY <1>3 DEF PodStep, run
  <2>2. \/ pulling' = Now /\ UNCHANGED <<born, pulled, started>>
        \/ pulled' \in {0, Now - pulling} /\ UNCHANGED <<born, pulling, started>>
        \/ started' = Now /\ UNCHANGED <<born, pulling, pulled>>
        \/ UNCHANGED <<born, pulling, pulled, started>>
    BY <1>3 DEF PodStep, BeginPull, EndPull, StartContainer, StoreEvent
  <2>3. Now - pulling \in 0..(phase + Timeout) \/ pulling = None
    BY <1>0
  <2>4. pulled' = Now - pulling => pulling # None \/ UNCHANGED pulled \/ pulled' = 0
    BY <1>3 DEF PodStep, BeginPull, EndPull, StartContainer, StoreEvent
  <2> QED
    BY <1>0, <2>1, <2>2, <2>3, <2>4
<1>4. CASE Tick /\ UNCHANGED startup
  BY <1>0, <1>4 DEF Tick, startup
<1>5. CASE UNCHANGED <<left, startup>>
  BY <1>0, <1>5 DEF startup
<1> QED
  BY <1>1, <1>2, <1>3, <1>4, <1>5 DEF Next, Shutdown, vars, run

LEMMA InitControl == Init => Control
<1> SUFFICES ASSUME Init PROVE Control
  OBVIOUS
<1> USE DEF Init, Control
<1>1. RunOK
  <2>1. 0 \in 0..Timeout /\ 0 \in 0..Limit /\ 0 + 0 <= Timeout
    BY TimeoutAssumption, LimitIs
  <2> QED
    BY <2>1, FirstCalls DEF RunInit, RunOK, Where, StartupCalls
<1>2. SamplesOK
  BY DEF RunInit, SamplesOK
<1>3. DNSOK
  BY TimeoutAssumption DEF RunInit, DNSInit, DNSOK
<1>4. FlagsOK
  BY DEF PolicyInit, MetricsInit, StartupInit, FlagsOK
<1>5. StartupOK
  BY TimeoutAssumption DEF RunInit, StartupInit, StartupOK, None, Now
<1> QED
  BY <1>1, <1>2, <1>3, <1>4, <1>5

LEMMA NextControl == Control /\ [Next]_vars => Control'
  BY NextRunOK, NextSamplesOK, NextDNSOK, NextFlagsOK, NextStartupOK DEF Control

LEMMA ControlHolds == Spec => []Control
  BY InitControl, NextControl, PTL DEF Spec

\* TypeOK: the runs of all checkers stay within their time, their loops within
\* their lists, their samples among the codes there are.
THEOREM TypeCorrect == Spec => []TypeOK
<1>1. Control => TypeOK
  <2> SUFFICES ASSUME Control PROVE TypeOK
    OBVIOUS
  <2>1. \A i \in DOMAIN samples :
            samples[i] \in [about : 0..Len(endpoints),
                            status : {"Healthy", "Unhealthy", "Unknown", ""}, code : Codes]
    <3> SUFFICES ASSUME NEW i \in DOMAIN samples
                 PROVE  samples[i] \in [about : 0..Len(endpoints),
                            status : {"Healthy", "Unhealthy", "Unknown", ""}, code : Codes]
      OBVIOUS
    <3>1. PICK n \in 0..Len(endpoints), o \in Outcomes : samples[i] = Sample(n, o)
      BY DEF Control, SamplesOK
    <3>2. Sample(n, o) \in [about : 0..Len(endpoints),
                            status : {"Healthy", "Unhealthy", "Unknown", ""}, code : Codes]
      BY LabelsAre DEF Sample
    <3> QED
      BY <3>1, <3>2
  <2> QED
    BY <2>1, FirstCalls, CallsAre DEF Control, RunOK, DNSOK, FlagsOK, StartupOK, TypeOK
<1> QED
  BY <1>1, ControlHolds, PTL

-----------------------------------------------------------------------------
(* What samples are worth. A sample's outcome is right when the history of *)
(* the run bears it out; every outcome is right when it is recorded, and   *)
(* stays so.                                                               *)

OwnTimeout(n) == Demand(n) <= budget => <<n, "silent">> \in faults

\* Outcome o of what is at place n, or of the checker.
Right(n, o) ==
    /\ check = "CoreDNS" =>
        /\ o = "Healthy" => /\ <<0, 0>> \in answered
                            /\ \E m \in DOMAIN endpoints : Ready(endpoints[m])
                            /\ \A m \in DOMAIN endpoints : Ready(endpoints[m]) => Heard(m)
        /\ o = "PodTimeout" => OwnTimeout(e)
    /\ check = "CoreDNSPerPod" =>
        /\ o = "Healthy" => Heard(n)
        /\ o # "Healthy" => \E f \in faults : f[1] = n
        /\ o = "PodTimeout" => OwnTimeout(n)
    /\ check = "LocalDNS" =>
        /\ o = "Healthy" => <<0, 0>> \in answered
        /\ o = "LocalDNSTimeout" => <<0, "silent">> \in faults
    /\ check = "AzurePolicy" =>
        /\ o = "Healthy" => violation \/ named
        /\ o # "Healthy" => ~violation
    /\ check = "MetricsServer" =>
        /\ o = "Healthy" => served
        /\ o # "Healthy" => ~served
    /\ check = "PodStartup" =>
        /\ o = "Healthy" => /\ connected /\ started # None /\ event
                            /\ 2 * Startup < 2 * WholeLimit + Second
        /\ o = "PodStartupDurationExceeded" =>
            \/ 2 * Startup > 2 * WholeLimit - 3 * Second
            \/ ctx = "expired" /\ ~(~missed /\ allotted >= StartupTimeout + Pulling + Second)

AllRight ==
    \A i \in DOMAIN samples : \E o \in Outcomes :
        /\ Fits(o) /\ samples[i] = Sample(samples[i].about, o)
        /\ Right(samples[i].about, o)

\* The queries that come before that of address i at place n.
Before(n, i) ==
    (UNION {{m} \X (1..endpoints[m].addresses) : m \in {k \in Queried(endpoints) : k < n}})
        \cup ({n} \X (1..(i - 1)))

\* What is known of the DNS queries before the current one. Each has taken
\* QueryTimeout at most.
DNSProgress ==
    /\ pc \in {"getService", "queryService", "queryLocal", "listEndpoints"} => e = 0 /\ a = 0
    /\ pc = "queryLocal" => left + wait = Timeout
    /\ pc \in {"listEndpoints", "queryPod"} /\ check = "CoreDNS" => <<0, 0>> \in answered
    /\ pc = "queryPod" =>
        /\ \A i \in 1..(a - 1) : <<e, i>> \in answered
        /\ check = "CoreDNS" => \A n \in Queried(endpoints) : n < e => Heard(n)
        /\ budget - left <= QueryTimeout * Cardinality(Before(e, a)) + wait

\* Nothing has been heard before the only call.
OnceProgress ==
    /\ pc = "dryRun" => ~violation
    /\ pc = "listMetrics" => ~served

\* What is known of the Pod: its container started after its image was there,
\* and, if the last poll did not see that, since then; once measured, its event is
\* stored and its start-up was short enough.
StartupProgress ==
    /\ pc \in StartupCalls \ {"prepare", "createPod"} => born = phase + Timeout - allotted
    /\ started # None \/ event => pulled # None
    /\ pc = "sleep" /\ ~missed /\ started # None => started >= Now - wait
    /\ pc \in {"listEvents", "getPodIP", "dial"} => started # None
    /\ pc \in {"getPodIP", "dial"} =>
        /\ event
        /\ 2 * (started - born - pulled) < 2 * WholeLimit + Second

Progress == DNSProgress /\ OnceProgress /\ StartupProgress

-----------------------------------------------------------------------------
(* The arithmetic of start-ups.                                            *)

\* Rounding errs by half a second at most.
LEMMA Rounding ==
    ASSUME NEW d \in Int
    PROVE  \E q \in Int : /\ RoundToSecond(d) = q * Second
                          /\ 2 * (q * Second) - Second <= 2 * d
                          /\ 2 * d <= 2 * (q * Second) + Second
<1>0. Second \in Nat \ {0}
  BY TimeoutAssumption
<1>1. ASSUME NEW n \in Nat
      PROVE  \E q \in Nat : /\ (2 * n + Second) \div (2 * Second) = q
                            /\ 2 * (q * Second) <= 2 * n + Second
                            /\ 2 * n + Second < 2 * (q * Second) + 2 * Second
  <2>1. \A x \in Nat, y \in Nat \ {0} :
            /\ x \div y \in Nat
            /\ (x \div y) * y <= x /\ x < (x \div y) * y + y
    OBVIOUS
  <2> DEFINE q == (2 * n + Second) \div (2 * Second)
  <2>2. q \in Nat /\ q * (2 * Second) <= 2 * n + Second
          /\ 2 * n + Second < q * (2 * Second) + 2 * Second
    <3>1. 2 * n + Second \in Nat /\ 2 * Second \in Nat \ {0}
      BY <1>0
    <3> QED
      BY <2>1, <3>1
  <2> HIDE DEF q
  <2>3. \A x, y \in Nat : x * (2 * y) = 2 * (x * y)
    OBVIOUS
  <2>4. q * (2 * Second) = 2 * (q * Second)
    BY <1>0, <2>2, <2>3
  <2> QED
    BY <2>2, <2>4 DEF q
<1>2. CASE d >= 0
  <2>1. PICK q \in Nat : /\ (2 * d + Second) \div (2 * Second) = q
                         /\ 2 * (q * Second) <= 2 * d + Second
                         /\ 2 * d + Second < 2 * (q * Second) + 2 * Second
    BY <1>1, <1>2
  <2>2. RoundToSecond(d) = q * Second
    BY <1>2, <2>1 DEF RoundToSecond
  <2>3. q * Second \in Nat
    BY <1>0
  <2> QED
    BY <1>0, <2>1, <2>2, <2>3
<1>3. CASE d < 0
  <2>1. PICK q \in Nat : /\ (2 * (-d) + Second) \div (2 * Second) = q
                         /\ 2 * (q * Second) <= 2 * (-d) + Second
                         /\ 2 * (-d) + Second < 2 * (q * Second) + 2 * Second
    <3>1. -d \in Nat
      BY <1>3
    <3> QED
      BY <1>1, <3>1
  <2>2. RoundToSecond(d) = -(q * Second)
    BY <1>0, <1>3, <2>1 DEF RoundToSecond
  <2>3. \A x, y \in Nat : -(x * y) = (-x) * y
    OBVIOUS
  <2>4. -q \in Int /\ (-q) * Second = -(q * Second)
    BY <1>0, <2>3
  <2>5. q * Second \in Nat
    BY <1>0
  <2> QED
    BY <1>0, <2>1, <2>2, <2>4, <2>5
<1> QED
  BY <1>2, <1>3

\* The limit as a whole number of seconds.
LEMMA WholeLimitIs ==
    \E k \in Nat : /\ WholeLimit = k * Second
                  /\ StartupTimeout <= k * Second /\ k * Second < StartupTimeout + Second
<1>1. Second \in Nat \ {0} /\ StartupTimeout \in Nat
  BY TimeoutAssumption, StartupAssumption
<1>2. \A x \in Nat, y \in Nat \ {0} :
          x - (x % y) = (x \div y) * y /\ x \div y \in Nat /\ x % y \in 0..(y - 1)
  OBVIOUS
<1> DEFINE x == StartupTimeout + Second - 1
<1>3. x \in Nat /\ WholeLimit = x - (x % Second)
  BY <1>1 DEF WholeLimit, ToSecond
<1>4. /\ x - (x % Second) = (x \div Second) * Second
      /\ x \div Second \in Nat /\ x % Second \in 0..(Second - 1)
  BY <1>1, <1>2, <1>3
<1>5. StartupTimeout <= x - (x % Second) /\ x - (x % Second) < StartupTimeout + Second
  BY <1>1, <1>4
<1> QED
  BY <1>3, <1>4, <1>5

\* Measuring a start-up errs by less than a second and a half below the limit, and
\* by half a second above.
LEMMA Measuring ==
    ASSUME NEW s \in Int, NEW b \in Int, NEW p \in Int
    PROVE  LET m == RoundToSecond(ToSecond(s) - ToSecond(b) - p) IN
           /\ m >= StartupTimeout => 2 * (s - b - p) > 2 * WholeLimit - 3 * Second
           /\ m < StartupTimeout => 2 * (s - b - p) < 2 * WholeLimit + Second
<1>0. Second \in Nat \ {0} /\ StartupTimeout \in Nat
  BY TimeoutAssumption, StartupAssumption
<1>1. ASSUME NEW t \in Int
      PROVE  ToSecond(t) \in Int /\ ToSecond(t) <= t /\ t < ToSecond(t) + Second
  BY <1>0 DEF ToSecond
<1> DEFINE d == ToSecond(s) - ToSecond(b) - p
<1>2. /\ d \in Int
      /\ s - b - p < d + Second /\ d - Second < s - b - p
  BY <1>0, <1>1
<1> HIDE DEF d
<1>3. PICK q \in Int : /\ RoundToSecond(d) = q * Second
                       /\ 2 * (q * Second) - Second <= 2 * d
                       /\ 2 * d <= 2 * (q * Second) + Second
  BY <1>2, Rounding
<1>4. PICK k \in Nat : /\ WholeLimit = k * Second
                       /\ StartupTimeout <= k * Second /\ k * Second < StartupTimeout + Second
  BY WholeLimitIs
<1>5. q * Second < k * Second => q * Second <= k * Second - Second
  <2>1. \A x, y \in Int, z \in Nat \ {0} : x * z < y * z => x + 1 <= y
    OBVIOUS
  <2>2. \A x, y \in Int, z \in Nat \ {0} : x + 1 <= y => x * z + z <= y * z
    OBVIOUS
  <2>3. q * Second \in Int /\ k * Second \in Int
    BY <1>0
  <2> QED
    BY <1>0, <2>1, <2>2, <2>3
<1>6. q * Second \in Int /\ k * Second \in Int
  BY <1>0
<1> QED
  BY <1>0, <1>2, <1>3, <1>4, <1>5, <1>6 DEF d

-----------------------------------------------------------------------------
(* The time that DNS queries take.                                         *)

\* There are finitely many queries.
LEMMA QueriesFinite ==
    ASSUME Listed, NEW S \in SUBSET DOMAIN endpoints, NEW n, NEW i \in Nat
    PROVE  IsFiniteSet((UNION {{m} \X (1..endpoints[m].addresses) : m \in S})
                            \cup ({n} \X (1..(i - 1))))
<1>1. IsFiniteSet(S)
  <2>1. DOMAIN endpoints = 1..Len(endpoints) /\ 1 \in Int /\ Len(endpoints) \in Int
    BY DEF Listed
  <2>2. IsFiniteSet(DOMAIN endpoints)
    BY <2>1, FS_Interval
  <2> QED
    BY <2>2, FS_Subset
<1>2. \A m, k : k \in Int => IsFiniteSet({m} \X (1..k))
  <2> TAKE m, k
  <2> HAVE k \in Int
  <2> DEFINE A == {m}
             B == 1..k
  <2>1. IsFiniteSet(A) /\ IsFiniteSet(B)
    <3>1. IsFiniteSet(A)
      BY FS_Singleton
    <3>2. 1 \in Int /\ k \in Int
      OBVIOUS
    <3>3. IsFiniteSet(B)
      BY <3>2, FS_Interval
    <3> QED
      BY <3>1, <3>3
  <2> HIDE DEF A, B
  <2>2. IsFiniteSet(A \X B)
    BY <2>1, FS_Product
  <2> QED
    BY <2>2 DEF A, B
<1> DEFINE f == [m \in S |-> {m} \X (1..endpoints[m].addresses)]
           F == {{m} \X (1..endpoints[m].addresses) : m \in S}
           G == {n} \X (1..(i - 1))
<1>3. IsFiniteSet(F)
  <2>1. \A y \in F : \E m \in S : y = f[m]
    OBVIOUS
  <2> HIDE DEF f, F
  <2> QED
    BY <1>1, <2>1, ImageBound
<1>4. \A T \in F : IsFiniteSet(T)
  <2> SUFFICES ASSUME NEW m \in S PROVE IsFiniteSet({m} \X (1..endpoints[m].addresses))
    OBVIOUS
  <2>1. endpoints[m].addresses \in Int
    BY DEF Listed
  <2> QED
    BY <1>2, <2>1
<1>5. IsFiniteSet(G)
  <2>1. i - 1 \in Int
    OBVIOUS
  <2> QED
    BY <1>2, <2>1
<1> HIDE DEF F, G
<1>6. IsFiniteSet(UNION F)
  BY <1>3, <1>4, FS_UNION
<1>7. IsFiniteSet((UNION F) \cup G)
  BY <1>5, <1>6, FS_Union
<1> QED
  BY <1>7 DEF F, G

\* Time is multiplied.
LEMMA Times ==
    ASSUME NEW x \in Nat, NEW y \in Nat, x + 1 <= y
    PROVE  QueryTimeout * x + QueryTimeout <= QueryTimeout * y
<1>1. \A q, u, v \in Nat : u + 1 <= v => q * u + q <= q * v
  OBVIOUS
<1>2. QueryTimeout \in Nat
  BY TimeoutAssumption
<1> QED
  BY <1>1, <1>2

\* The endpoint's demand covers the queries before the current one, and it.
LEMMA DemandCovers ==
    ASSUME Listed, DNSOK, pc = "queryPod"
    PROVE  /\ Cardinality(Before(e, a)) \in Nat /\ Demand(e) \in Nat
           /\ QueryTimeout * Cardinality(Before(e, a)) + QueryTimeout <= Demand(e)
<1> DEFINE S == {k \in Queried(endpoints) : k <= e}
           T == UNION {{m} \X (1..endpoints[m].addresses) : m \in S}
<1>1. /\ e \in Queried(endpoints) /\ e \in DOMAIN endpoints /\ e \in Nat
      /\ a \in 1..endpoints[e].addresses /\ a \in Nat
  BY DEF DNSOK, Queried, Listed
<1>2. IsFiniteSet(T)
  <2>1. S \in SUBSET DOMAIN endpoints
    BY DEF Queried
  <2>2. ({0} \X (1..(0 - 1))) = {}
    OBVIOUS
  <2>3. IsFiniteSet(T \cup ({0} \X (1..(0 - 1))))
    BY <2>1, QueriesFinite
  <2> QED
    BY <2>2, <2>3
<1>3. Before(e, a) \subseteq T /\ <<e, a>> \in T /\ <<e, a>> \notin Before(e, a)
  <2>1. <<e, a>> \in T
    BY <1>1
  <2>2. \A q \in Before(e, a) : q \in T
    <3> SUFFICES ASSUME NEW q \in Before(e, a) PROVE q \in T
      OBVIOUS
    <3>1. CASE q \in {e} \X (1..(a - 1))
      <4>1. q \in {e} \X (1..endpoints[e].addresses)
        BY <1>1, <3>1 DEF Listed
      <4> QED
        BY <1>1, <4>1
    <3>2. CASE \E k \in Queried(endpoints) : k < e /\ q \in {k} \X (1..endpoints[k].addresses)
      <4>1. PICK k \in Queried(endpoints) : k < e /\ q \in {k} \X (1..endpoints[k].addresses)
        BY <3>2
      <4>2. k \in S
        BY <1>1, <4>1 DEF Queried, Listed
      <4> QED
        BY <4>1, <4>2
    <3> QED
      BY <3>1, <3>2 DEF Before
  <2>3. <<e, a>> \notin Before(e, a)
    BY <1>1 DEF Before, Queried, Listed
  <2> QED
    BY <2>1, <2>2, <2>3
<1>4. Demand(e) = QueryTimeout * Cardinality(T)
  BY DEF Demand
<1> HIDE DEF T
<1>5. /\ Cardinality(Before(e, a)) \in Nat /\ Cardinality(T) \in Nat
      /\ Cardinality(Before(e, a)) + 1 <= Cardinality(T)
  BY <1>2, <1>3, PartBound
<1> QED
  BY <1>4, <1>5, Times, TimeoutAssumption

\* The next query's predecessors are the current one's, and it.
LEMMA BeforeGrows ==
    ASSUME Listed, DNSOK, pc = "queryPod", UNCHANGED <<endpoints, check>>,
           e' \in DOMAIN endpoints, a' \in Nat \ {0},
           (e' = e /\ a' = a + 1) \/ e' > e
    PROVE  /\ Cardinality(Before(e, a)) \in Nat /\ Cardinality(Before(e, a)') \in Nat
           /\ QueryTimeout * Cardinality(Before(e, a)) + QueryTimeout
                <= QueryTimeout * Cardinality(Before(e, a)')
<1>1. /\ e \in Queried(endpoints) /\ e \in DOMAIN endpoints /\ e \in Nat /\ e' \in Nat
      /\ a \in 1..endpoints[e].addresses /\ a \in Nat
  BY DEF DNSOK, Queried, Listed
<1> DEFINE S == {k \in Queried(endpoints) : k < e'}
           B == (UNION {{m} \X (1..endpoints[m].addresses) : m \in S})
                    \cup ({e'} \X (1..(a' - 1)))
<1>2. Before(e, a)' = B
  BY DEF Before, Queried
<1>3. IsFiniteSet(B)
  <2>1. S \in SUBSET DOMAIN endpoints
    BY DEF Queried
  <2> QED
    BY <2>1, QueriesFinite
<1>4. <<e, a>> \in B
  BY <1>1
<1>5. \A q \in Before(e, a) : q \in B
  BY <1>1 DEF Before, Queried, Listed
<1>6. <<e, a>> \notin Before(e, a)
  BY <1>1 DEF Before, Queried, Listed
<1> HIDE DEF B
<1>7. /\ Cardinality(Before(e, a)) \in Nat /\ Cardinality(B) \in Nat
      /\ Cardinality(Before(e, a)) + 1 <= Cardinality(B)
  BY <1>3, <1>4, <1>5, <1>6, PartBound
<1> QED
  BY <1>2, <1>7, Times

-----------------------------------------------------------------------------
(* DNS queries.                                                            *)

\* What is recorded is right.
RecordsRight ==
    \/ UNCHANGED samples
    \/ /\ check # "CoreDNSPerPod"
       /\ \E o \in Outcomes : /\ Fits(o)' /\ Right(Checker, o)'
                              /\ samples' = Append(samples, Sample(Checker, o))
    \/ /\ check = "CoreDNSPerPod" /\ pc = "queryPod"
       /\ \E o \in Outcomes, n \in DOMAIN endpoints :
            /\ n = e
            /\ Fits(o)' /\ Right(n, o)' /\ samples' = Append(samples, Sample(n, o))

\* A query that is silent for too long is noted as silent; a time-out before
\* that is the context's.
LEMMA Silence ==
    ASSUME Control, pc \in Queries, Fails("deadline"), Miss
    PROVE  <<e, "silent">> \in faults' \/ (left = 0 /\ wait < QueryTimeout)
<1>1. Limit = QueryTimeout
  BY DEF Limit, Queries
<1>2. wait \in 0..Limit /\ left \in 0..Timeout
  BY DEF Control, RunOK
<1>3. CASE wait >= Limit
  BY <1>3 DEF Miss, Why
<1>4. CASE ctx = "expired" /\ ~(wait >= Limit)
  BY <1>1, <1>2, <1>4, TimeoutAssumption DEF Control, RunOK
<1> QED
  BY <1>3, <1>4 DEF Fails, TimedOut

\* A pod query cut off by the context is of an endpoint that asks for more time
\* than there was.
LEMMA TimeoutOwn ==
    ASSUME Control, DNSProgress, pc = "queryPod", Fails("deadline"), Miss,
           UNCHANGED <<endpoints, budget, check>>
    PROVE  Demand(e) <= budget => <<e, "silent">> \in faults'
<1>1. CASE <<e, "silent">> \in faults'
  BY <1>1
<1>2. CASE left = 0 /\ wait < QueryTimeout
  <2>1. /\ Cardinality(Before(e, a)) \in Nat /\ Demand(e) \in Nat
        /\ QueryTimeout * Cardinality(Before(e, a)) + QueryTimeout <= Demand(e)
    BY DemandCovers, EndpointsAre DEF Control
  <2>2. budget - left <= QueryTimeout * Cardinality(Before(e, a)) + wait
    BY DEF DNSProgress
  <2> DEFINE spent == QueryTimeout * Cardinality(Before(e, a))
  <2>3. budget \in Nat /\ wait \in Nat /\ spent \in Nat /\ QueryTimeout \in Nat
    <3>1. Limit = QueryTimeout
      BY DEF Limit, Queries
    <3> QED
      BY <2>1, <3>1, TimeoutAssumption DEF Control, RunOK, DNSOK
  <2> HIDE DEF spent
  <2>4. spent + QueryTimeout <= Demand(e) /\ budget - left <= spent + wait
    BY <2>1, <2>2 DEF spent
  <2>5. Demand(e) > budget
    BY <1>2, <2>1, <2>3, <2>4
  <2> QED
    BY <2>1, <2>3, <2>5
<1> QED
  BY <1>1, <1>2, Silence DEF Queries

\* The service and LocalDNS.
LEMMA SingleQueries ==
    ASSUME Control, DNSProgress, GetService \/ QueryService \/ QueryLocalDNS
    PROVE  RecordsRight /\ DNSProgress'
<1> USE DEF Outcomes, Codes
<1>0. Where
  BY DEF Control, RunOK
<1>1. CASE GetService
  <2>1. DNSProgress'
    BY <1>0, <1>1 DEF GetService, DNSProgress, dns, Return, NextCall, Where
  <2>2. RecordsRight
    BY <1>0, <1>1 DEF GetService, RecordsRight, Right, Return, Where, Fits
  <2> QED
    BY <2>1, <2>2
<1>2. CASE QueryService
  <2>1. DNSProgress'
    BY <1>0, <1>2 DEF QueryService, DNSProgress, Return, NextCall, Where, Hear
  <2>2. RecordsRight
    BY <1>0, <1>2 DEF QueryService, RecordsRight, Right, Return, Where, Fits
  <2> QED
    BY <2>1, <2>2
<1>3. CASE QueryLocalDNS
  <2>1. DNSProgress'
    BY <1>0, <1>3 DEF QueryLocalDNS, DNSProgress, Return, Where
  <2>2. e = 0 /\ a = 0 /\ check = "LocalDNS" /\ UNCHANGED check
    BY <1>0, <1>3 DEF QueryLocalDNS, DNSProgress, Where, Return
  <2>3. ASSUME Hear, Return("Healthy") PROVE RecordsRight
    <3>1. Right(Checker, "Healthy")'
      BY <2>2, <2>3 DEF Right, Hear
    <3> QED
      BY <2>2, <2>3, <3>1 DEF RecordsRight, Return, Fits
  <2>4. ASSUME Fails("deadline"), Miss, Return("LocalDNSTimeout") PROVE RecordsRight
    <3>1. <<e, "silent">> \in faults'
      BY <1>3, <2>4, Silence, TimeoutAssumption
         DEF Control, RunOK, DNSProgress, QueryLocalDNS, Queries, Limit
    <3>2. Right(Checker, "LocalDNSTimeout")'
      BY <2>2, <3>1 DEF Right
    <3> QED
      BY <2>2, <2>4, <3>2 DEF RecordsRight, Return, Fits
  <2>5. ASSUME Return("LocalDNSError") PROVE RecordsRight
    <3>1. Right(Checker, "LocalDNSError")'
      BY <2>2 DEF Right
    <3> QED
      BY <2>2, <2>5, <3>1 DEF RecordsRight, Return, Fits
  <2> QED
    BY <1>3, <2>1, <2>3, <2>4, <2>5 DEF QueryLocalDNS
<1> QED
  BY <1>1, <1>2, <1>3

\* Where the loop over list l goes after place n.
LEMMA GoOnIs ==
    ASSUME NEW l, DOMAIN l \subseteq Nat, NEW n \in Nat, NEW smps, GoOn(n, l, smps)
    PROVE  /\ UNCHANGED <<check, ctx, left, down>>
           /\ \/ /\ pc' = "queryPod" /\ wait' = 0 /\ samples' = smps /\ a' = 1
                 /\ e' \in Queried(l) /\ e' \in Nat /\ e' > n
                 /\ \A m \in Queried(l) : m > n => m >= e'
              \/ /\ pc' = "idle" /\ UNCHANGED <<e, a>>
                 /\ \A m \in Queried(l) : m <= n
                 /\ samples' = IF check = "CoreDNS"
                                THEN Append(smps, Sample(Checker, "Healthy")) ELSE smps
<1>1. Later(n, l) \in SUBSET Nat
  BY DEF Later, Queried
<1>2. CASE Later(n, l) # {}
  <2>1. e' \in Later(n, l) /\ \A m \in Later(n, l) : e' <= m
    BY <1>1, <1>2, MinIs DEF GoOn
  <2>2. e' \in Queried(l) /\ e' > n /\ \A m \in Queried(l) : m > n => m >= e'
    BY <1>1, <2>1 DEF Later
  <2> QED
    BY <1>1, <1>2, <2>1, <2>2 DEF GoOn, NextCall
<1>3. CASE Later(n, l) = {}
  <2>1. \A m \in Queried(l) : m <= n
    BY <1>3 DEF Later, Queried
  <2> QED
    BY <1>3, <2>1 DEF GoOn
<1> QED
  BY <1>2, <1>3

LEMMA BeforeCounts == DNSOK /\ pc = "queryPod" => Cardinality(Before(e, a)) \in Nat
  BY DemandCovers, EndpointsAre

\* Listing the endpoints.
LEMMA Listing ==
    ASSUME Control, DNSOK', DNSProgress, ListEndpoints
    PROVE  RecordsRight /\ DNSProgress'
<1> USE DEF Outcomes, Codes
<1>0. /\ pc = "listEndpoints" /\ check \in {"CoreDNS", "CoreDNSPerPod"}
      /\ left \in 0..Timeout
  BY DEF Control, RunOK, Where, ListEndpoints
<1>1. ASSUME check = "CoreDNS", NEW o \in {"PodsNotReady", "error"}, Return(o)
      PROVE  RecordsRight /\ DNSProgress'
  <2>1. Right(Checker, o)'
    BY <1>1 DEF Right, Return
  <2>2. RecordsRight
    BY <1>1, <2>1 DEF RecordsRight, Return, Fits
  <2> QED
    BY <1>1, <2>2 DEF DNSProgress, Return
<1>2. ASSUME check = "CoreDNSPerPod", pc' = "idle",
             UNCHANGED <<check, ctx, left, wait, down, samples>>
      PROVE  RecordsRight /\ DNSProgress'
  BY <1>2 DEF RecordsRight, DNSProgress
<1>3. ASSUME NEW l \in EndpointLists, endpoints' = l, ~\A n \in DOMAIN l : ~Ready(l[n]),
             GoOn(0, l, samples), budget' = left, UNCHANGED <<answered, faults>>
      PROVE  RecordsRight /\ DNSProgress'
  <2>1. l \in Seq({l[n] : n \in DOMAIN l})
    BY EndpointsAssumption
  <2>2. DOMAIN l \subseteq Nat \ {0}
    BY <2>1
  <2>3. /\ UNCHANGED <<check, ctx, left, down>>
        /\ \/ /\ pc' = "queryPod" /\ wait' = 0 /\ samples' = samples /\ a' = 1
              /\ e' \in Queried(l) /\ e' \in Nat /\ e' > 0
              /\ \A m \in Queried(l) : m > 0 => m >= e'
           \/ /\ pc' = "idle" /\ UNCHANGED <<e, a>>
              /\ \A m \in Queried(l) : m <= 0
              /\ samples' = IF check = "CoreDNS"
                             THEN Append(samples, Sample(Checker, "Healthy")) ELSE samples
    BY <1>3, <2>2, GoOnIs
  <2>4. CASE pc' = "queryPod"
    <3>1. Queried(endpoints)' = Queried(l)
      BY <1>3, <2>3 DEF Queried
    <3>2. \A m \in Queried(l) : m \in Nat \ {0}
      BY <2>2 DEF Queried
    <3>3. Cardinality(Before(e, a)') \in Nat
      <4>1. (DNSOK /\ pc = "queryPod" => Cardinality(Before(e, a)) \in Nat)'
        BY BeforeCounts, PTL
      <4> QED
        BY <2>4, <4>1
    <3>4. QueryTimeout * Cardinality(Before(e, a)') \in Nat
      BY <3>3, TimeoutAssumption
    <3>5. budget' - left' <= QueryTimeout * Cardinality(Before(e, a)') + wait'
      BY <1>0, <1>3, <2>3, <2>4, <3>4
    <3>6. check' = "CoreDNS" => <<0, 0>> \in answered'
      BY <1>0, <1>3, <2>3 DEF DNSProgress
    <3>7. \A n \in Queried(endpoints)' : ~(n < e')
      BY <2>3, <2>4, <3>1, <3>2
    <3>8. a' = 1 /\ 1..(a' - 1) = {}
      BY <2>3, <2>4
    <3>9. DNSProgress'
      BY <2>4, <3>5, <3>6, <3>7, <3>8 DEF DNSProgress
    <3> QED
      BY <2>3, <2>4, <3>9 DEF RecordsRight
  <2>5. CASE pc' = "idle"
    <3>1. check = "CoreDNSPerPod"
      BY <1>0, <1>3, <2>2, <2>3, <2>5 DEF Queried
    <3> QED
      BY <2>3, <2>5, <3>1 DEF RecordsRight, DNSProgress
  <2> QED
    BY <2>3, <2>4, <2>5
<1> QED
  BY <1>0, <1>1, <1>2, <1>3 DEF ListEndpoints

\* The next query has no more time behind it than those before it may take.
LEMMA NextSpent ==
    ASSUME Control, DNSProgress, pc = "queryPod", UNCHANGED <<endpoints, check, left, budget>>,
           e' \in DOMAIN endpoints, a' \in Nat \ {0}, (e' = e /\ a' = a + 1) \/ e' > e,
           wait' = 0
    PROVE  budget' - left' <= QueryTimeout * Cardinality(Before(e, a)') + wait'
<1> DEFINE old == QueryTimeout * Cardinality(Before(e, a))
           new == QueryTimeout * Cardinality(Before(e, a)')
<1>1. /\ Cardinality(Before(e, a)) \in Nat /\ Cardinality(Before(e, a)') \in Nat
      /\ old + QueryTimeout <= new
  BY BeforeGrows, EndpointsAre DEF Control
<1>2. old \in Nat /\ new \in Nat /\ QueryTimeout \in Nat
  BY <1>1, TimeoutAssumption
<1>3. budget - left <= old + wait
  BY DEF DNSProgress
<1>4. wait \in 0..QueryTimeout /\ budget \in Nat /\ left \in Nat
  <2>1. Limit = QueryTimeout
    BY DEF Limit, Queries
  <2> QED
    BY <2>1, TimeoutAssumption DEF Control, RunOK, DNSOK
<1> HIDE DEF old, new
<1>5. budget - left <= new
  BY <1>1, <1>2, <1>3, <1>4
<1> QED
  BY <1>2, <1>4, <1>5 DEF new

\* A pod's address answers.
LEMMA Answers ==
    ASSUME Control, DNSProgress, QueryPodAnswered
    PROVE  RecordsRight /\ DNSProgress'
<1> USE DEF Outcomes, Codes
<1>0. /\ pc = "queryPod" /\ check \in {"CoreDNS", "CoreDNSPerPod"}
      /\ UNCHANGED <<endpoints, budget, faults>> /\ answered' = answered \cup {<<e, a>>}
      /\ e \in Queried(endpoints) /\ e \in DOMAIN endpoints /\ e \in Nat
      /\ a \in 1..endpoints[e].addresses /\ a \in Nat /\ DOMAIN endpoints \subseteq Nat
  BY EndpointsAre DEF Control, RunOK, Where, QueryPodAnswered, Hear, DNSOK, Queried, Listed
<1>1. /\ \A i \in 1..a : <<e, i>> \in answered'
      /\ check = "CoreDNS" => /\ <<0, 0>> \in answered'
                              /\ \A n \in Queried(endpoints) : n < e =>
                                    \A i \in 1..endpoints[n].addresses : <<n, i>> \in answered'
  BY <1>0 DEF DNSProgress, Heard
<1>2. ASSUME a < endpoints[e].addresses, NextCall("queryPod"), a' = a + 1,
             UNCHANGED <<e, samples>>
      PROVE  RecordsRight /\ DNSProgress'
  <2>1. budget' - left' <= QueryTimeout * Cardinality(Before(e, a)') + wait'
    BY <1>0, <1>2, NextSpent DEF NextCall
  <2>2. Queried(endpoints)' = Queried(endpoints)
    BY <1>0, <1>2 DEF NextCall, Queried
  <2>3. 1..(a' - 1) = 1..a
    BY <1>0, <1>2
  <2>4. DNSProgress'
    BY <1>0, <1>1, <1>2, <2>1, <2>2, <2>3 DEF DNSProgress, NextCall, Heard
  <2> QED
    BY <1>2, <2>4 DEF RecordsRight
<1>3. ASSUME a = endpoints[e].addresses, NEW smps, GoOn(e, endpoints, smps),
             smps = IF check = "CoreDNS" THEN samples
                    ELSE Append(samples, Sample(e, "Healthy"))
      PROVE  RecordsRight /\ DNSProgress'
  <2>1. /\ UNCHANGED <<check, ctx, left, down>>
        /\ \/ /\ pc' = "queryPod" /\ wait' = 0 /\ samples' = smps /\ a' = 1
              /\ e' \in Queried(endpoints) /\ e' \in Nat /\ e' > e
              /\ \A m \in Queried(endpoints) : m > e => m >= e'
           \/ /\ pc' = "idle" /\ UNCHANGED <<e, a>>
              /\ \A m \in Queried(endpoints) : m <= e
              /\ samples' = IF check = "CoreDNS"
                             THEN Append(smps, Sample(Checker, "Healthy")) ELSE smps
    BY <1>0, <1>3, GoOnIs
  <2>2. Queried(endpoints)' = Queried(endpoints) /\ Queried(endpoints) \subseteq Nat
    BY <1>0, <2>1 DEF Queried
  <2>3. check = "CoreDNS" =>
            \A n \in Queried(endpoints) : n <= e =>
                \A i \in 1..endpoints[n].addresses : <<n, i>> \in answered'
    BY <1>0, <1>1, <1>3, <2>2
  <2>4. DNSProgress'
    <3>1. CASE pc' = "queryPod"
      <4>1. budget' - left' <= QueryTimeout * Cardinality(Before(e, a)') + wait'
        BY <1>0, <2>1, <3>1, NextSpent DEF Queried
      <4>2. \A n \in Queried(endpoints) : n < e' => n <= e
        BY <1>0, <2>1, <2>2, <3>1
      <4>3. 1..(a' - 1) = {}
        BY <2>1, <3>1
      <4> QED
        BY <1>0, <1>1, <2>1, <2>2, <2>3, <3>1, <4>1, <4>2, <4>3 DEF DNSProgress, Heard
    <3>2. CASE pc' = "idle"
      BY <3>2 DEF DNSProgress
    <3> QED
      BY <2>1, <3>1, <3>2
  <2>5. CASE check = "CoreDNS"
    <3>1. CASE pc' = "queryPod"
      BY <1>3, <2>1, <2>4, <2>5, <3>1 DEF RecordsRight
    <3>2. CASE pc' = "idle"
      <4>1. Right(Checker, "Healthy")'
        <5>1. \A m \in DOMAIN endpoints : Ready(endpoints[m]) => m \in Queried(endpoints)
          BY <2>5 DEF Queried
        <5>2. \A m \in DOMAIN endpoints : Ready(endpoints[m]) =>
                \A i \in 1..endpoints[m].addresses : <<m, i>> \in answered'
          BY <2>1, <2>3, <2>5, <3>2, <5>1
        <5>3. e \in DOMAIN endpoints /\ Ready(endpoints[e])
          BY <1>0 DEF Queried
        <5> QED
          BY <1>0, <1>1, <2>1, <2>5, <5>2, <5>3 DEF Right, Heard
      <4>2. samples' = Append(samples, Sample(Checker, "Healthy"))
        BY <1>3, <2>1, <2>5, <3>2
      <4> QED
        BY <2>1, <2>4, <2>5, <4>1, <4>2 DEF RecordsRight, Fits
    <3> QED
      BY <2>1, <3>1, <3>2
  <2>6. CASE check = "CoreDNSPerPod"
    <3>1. samples' = Append(samples, Sample(e, "Healthy"))
      BY <1>3, <2>1, <2>6
    <3>2. PICK n \in DOMAIN endpoints : n = e
      BY <1>0
    <3>3. Right(n, "Healthy")'
      BY <1>0, <1>1, <1>3, <2>1, <2>6, <3>2 DEF Right, Heard
    <3> QED
      BY <1>0, <2>1, <2>4, <2>6, <3>1, <3>2, <3>3 DEF RecordsRight, Fits
  <2> QED
    BY <1>0, <2>4, <2>5, <2>6
<1>4. CASE a < endpoints[e].addresses
  BY <1>2, <1>4 DEF QueryPodAnswered
<1>5. CASE ~(a < endpoints[e].addresses)
  <2>1. a = endpoints[e].addresses
    BY <1>0, <1>5, EndpointsAre DEF Control, Listed
  <2> DEFINE smps == IF check = "CoreDNS" THEN samples
                     ELSE Append(samples, Sample(e, "Healthy"))
  <2>2. GoOn(e, endpoints, smps)
    BY <1>5 DEF QueryPodAnswered
  <2> QED
    BY <1>3, <2>1, <2>2
<1> QED
  BY <1>4, <1>5

\* A pod's address does not answer.
LEMMA NoAnswer ==
    ASSUME Control, DNSProgress, QueryPodFails
    PROVE  RecordsRight /\ DNSProgress'
<1> USE DEF Outcomes, Codes
<1>0. /\ pc = "queryPod" /\ check \in {"CoreDNS", "CoreDNSPerPod"}
      /\ UNCHANGED <<endpoints, budget, answered>>
      /\ e \in Queried(endpoints) /\ e \in DOMAIN endpoints /\ e \in Nat
      /\ DOMAIN endpoints \subseteq Nat
  BY EndpointsAre DEF Control, RunOK, Where, QueryPodFails, Miss, DNSOK, Queried, Listed
<1>1. PICK err \in {"deadline", "other"} :
        /\ Fails(err) /\ Miss
        /\ IF check = "CoreDNS"
             THEN /\ Return(IF err = "deadline" THEN "PodTimeout" ELSE "PodError")
                  /\ UNCHANGED <<e, a>>
             ELSE GoOn(e, endpoints,
                       Append(samples, Sample(e, IF err = "deadline" THEN "PodTimeout"
                                                                     ELSE "error")))
  BY DEF QueryPodFails
<1>2. UNCHANGED check
  BY <1>0, <1>1, GoOnIs DEF Return
<1>3. err = "deadline" => (Demand(e) <= budget => <<e, "silent">> \in faults')
  BY <1>0, <1>1, <1>2, TimeoutOwn
<1>4. ASSUME NEW n PROVE Demand(n)' = Demand(n)
  BY <1>0, <1>2 DEF Demand, Queried
<1>5. CASE check = "CoreDNS"
  <2> DEFINE o == IF err = "deadline" THEN "PodTimeout" ELSE "PodError"
  <2>1. pc' = "idle" /\ samples' = Append(samples, Sample(Checker, o)) /\ UNCHANGED e
    BY <1>1, <1>5 DEF Return
  <2>2. o = "PodTimeout" => OwnTimeout(e)'
    BY <1>0, <1>3, <1>4, <2>1 DEF OwnTimeout
  <2>3. o \in Outcomes /\ o # "Healthy" /\ Fits(o)'
    BY <1>2, <1>5 DEF Fits
  <2> HIDE DEF o
  <2>4. Right(Checker, o)'
    BY <1>2, <1>5, <2>2, <2>3 DEF Right
  <2> QED
    BY <1>5, <2>1, <2>3, <2>4 DEF RecordsRight, DNSProgress
<1>6. CASE check = "CoreDNSPerPod"
  <2> DEFINE o == IF err = "deadline" THEN "PodTimeout" ELSE "error"
             smps == Append(samples, Sample(e, o))
  <2>1. /\ UNCHANGED <<check, ctx, left, down>> /\ samples' = smps
        /\ \/ /\ pc' = "queryPod" /\ wait' = 0 /\ a' = 1
              /\ e' \in Queried(endpoints) /\ e' \in Nat /\ e' > e
           \/ pc' = "idle"
    BY <1>0, <1>1, <1>6, GoOnIs
  <2>2. DNSProgress'
    <3>1. CASE pc' = "queryPod"
      <4>1. budget' - left' <= QueryTimeout * Cardinality(Before(e, a)') + wait'
        BY <1>0, <2>1, <3>1, NextSpent DEF Queried
      <4>2. 1..(a' - 1) = {}
        BY <2>1, <3>1
      <4> QED
        BY <1>2, <1>6, <3>1, <4>1, <4>2 DEF DNSProgress
    <3>2. CASE pc' = "idle"
      BY <3>2 DEF DNSProgress
    <3> QED
      BY <2>1, <3>1, <3>2
  <2>3. PICK n \in DOMAIN endpoints : n = e
    BY <1>0
  <2>4. <<n, Why>> \in faults' /\ <<n, Why>>[1] = n
    BY <1>1, <2>3 DEF Miss
  <2>5. o = "PodTimeout" => OwnTimeout(n)'
    BY <1>0, <1>3, <1>4, <2>3 DEF OwnTimeout
  <2>6. o \in Outcomes /\ o # "Healthy" /\ Fits(o)'
    BY <1>2, <1>6 DEF Fits
  <2>7. samples' = Append(samples, Sample(n, o))
    BY <2>1, <2>3
  <2> HIDE DEF o, smps
  <2>8. Right(n, o)'
    BY <1>2, <1>6, <2>4, <2>5, <2>6 DEF Right
  <2> QED
    BY <1>0, <1>6, <2>2, <2>3, <2>6, <2>7, <2>8 DEF RecordsRight
<1> QED
  BY <1>0, <1>5, <1>6

-----------------------------------------------------------------------------
(* Azure Policy and the metrics server.                                    *)

\* A message with both words is Azure Policy's, unless the name is in all.
LEMMA Quotes ==
    ASSUME NEW m \in OtherMessages \cup {PolicyViolation}, HasViolation(m), ~named
    PROVE  m = PolicyViolation /\ m \notin OtherMessages
<1>1. m \subseteq Words
  BY DEF OtherMessages, PolicyViolation, Words
<1>2. m = PolicyViolation
  BY <1>1 DEF HasViolation, PolicyViolation, Words
<1> QED
  BY <1>2 DEF OtherMessages

LEMMA Single ==
    ASSUME Control, OnceProgress, PolicyStep \/ ListMetrics
    PROVE  RecordsRight /\ OnceProgress'
<1> USE DEF Outcomes, Codes
<1>0. Where
  BY DEF Control, RunOK
<1>1. CASE NewClientFails
  <2>1. check = "AzurePolicy" /\ ~violation' /\ UNCHANGED check /\ pc' = "idle"
    BY <1>0, <1>1 DEF NewClientFails, Return, policy, OnceProgress, Where
  <2>2. Right(Checker, "error")'
    BY <2>1 DEF Right
  <2> QED
    BY <1>1, <2>1, <2>2 DEF RecordsRight, NewClientFails, Return, Fits, OnceProgress
<1>2. CASE DryRun
  <2>1. check = "AzurePolicy" /\ UNCHANGED <<check, named>> /\ pc' = "idle"
    BY <1>0, <1>2 DEF DryRun, Return, Where
  <2>2. PICK err \in {"none", "deadline", "other"}, spoke \in BOOLEAN :
            /\ IF err = "none" THEN Answered ELSE Fails(err)
            /\ spoke => Answered
            /\ violation' = spoke
            /\ LET said == IF spoke THEN OtherMessages \cup {PolicyViolation}
                                    ELSE OtherMessages
               IN  \E msg \in said, warnings \in SUBSET said :
                    /\ spoke => PolicyViolation \in warnings
                                  \/ (err = "other" /\ msg = PolicyViolation)
                    /\ Return(Verdict(err, msg, warnings))
    BY <1>2 DEF DryRun
  <2> DEFINE said == IF spoke THEN OtherMessages \cup {PolicyViolation} ELSE OtherMessages
  <2>3. PICK msg \in said, warnings \in SUBSET said :
            /\ spoke => PolicyViolation \in warnings
                          \/ (err = "other" /\ msg = PolicyViolation)
            /\ Return(Verdict(err, msg, warnings))
    BY <2>2
  <2> DEFINE o == Verdict(err, msg, warnings)
  <2>4. o \in {"Healthy", "error", "AzurePolicyEnforcementMissing"}
    BY DEF Verdict
  <2>5. CASE spoke
    <3>1. err # "deadline"
      BY <2>2, <2>5 DEF Answered, CutOff, Fails
    <3>2. HasViolation(PolicyViolation)
      BY DEF HasViolation, PolicyViolation
    <3>3. o = "Healthy"
      BY <2>3, <2>5, <3>1, <3>2 DEF Verdict
    <3>4. Right(Checker, o)'
      BY <2>1, <2>2, <2>5, <3>3 DEF Right
    <3> QED
      BY <2>1, <2>3, <3>3, <3>4 DEF RecordsRight, Return, Fits, OnceProgress
  <2>6. CASE ~spoke
    <3>1. ~violation'
      BY <2>2, <2>6
    <3>2. o = "Healthy" => named
      <4>1. o = "Healthy" => \E m \in said : HasViolation(m)
        BY <2>3 DEF Verdict
      <4>2. ~named => \A m \in said : ~HasViolation(m)
        BY <2>6, Quotes
      <4> QED
        BY <4>1, <4>2
    <3> HIDE DEF o
    <3>3. Right(Checker, o)'
      BY <2>1, <3>1, <3>2 DEF Right
    <3>4. samples' = Append(samples, Sample(Checker, o))
      BY <2>3 DEF Return, o
    <3>5. Fits(o)'
      BY <2>4 DEF Fits
    <3> QED
      BY <2>1, <2>4, <3>3, <3>4, <3>5 DEF RecordsRight, OnceProgress
  <2> QED
    BY <2>2, <2>5, <2>6
<1>3. CASE ListMetrics
  <2>1. check = "MetricsServer" /\ UNCHANGED check /\ pc' = "idle"
    BY <1>0, <1>3 DEF ListMetrics, Return, Where
  <2>2. ASSUME served' = TRUE, Return("Healthy") PROVE RecordsRight
    <3>1. Right(Checker, "Healthy")'
      BY <2>1, <2>2 DEF Right
    <3> QED
      BY <2>1, <2>2, <3>1 DEF RecordsRight, Return, Fits
  <2>3. ASSUME UNCHANGED served, NEW o \in {"MetricsServerTimeout", "MetricsServerUnavailable"},
               Return(o)
        PROVE  RecordsRight
    <3>1. ~served'
      BY <1>3, <2>3 DEF ListMetrics, OnceProgress
    <3>2. Right(Checker, o)'
      BY <2>1, <2>3, <3>1 DEF Right
    <3> QED
      BY <2>1, <2>3, <3>2 DEF RecordsRight, Return, Fits
  <2> QED
    BY <1>3, <2>1, <2>2, <2>3 DEF ListMetrics, OnceProgress
<1> QED
  BY <1>1, <1>2, <1>3 DEF PolicyStep

-----------------------------------------------------------------------------
(* The start-up of the Pod.                                                *)

LEMMA Starting ==
    ASSUME Control, StartupProgress, StartupStep
    PROVE  RecordsRight /\ StartupProgress'
<1> USE DEF StartupCalls
<1>0. /\ check = "PodStartup" /\ UNCHANGED <<check, left, ctx>> /\ UNCHANGED phase
      /\ left \in Nat /\ phase \in Nat /\ Timeout \in Nat /\ Second \in Nat
      /\ StartupTimeout \in Nat /\ allotted \in Nat
      /\ born \in Int /\ pulling \in Int /\ pulled \in Int /\ started \in Int
      /\ wait \in Nat /\ (ctx = "expired" => left = 0)
  <2>1. Where
    BY DEF Control, RunOK
  <2>2. check = "PodStartup" /\ UNCHANGED <<check, left, ctx>> /\ UNCHANGED phase
    BY <2>1 DEF Where, StartupStep, Prepare, CreateVerdictPod, Poll, Wake, PollEnds,
                ListEvents, GetPodIP, Dial, Return, NextCall, startup
  <2>3. wait \in Nat
    BY LimitIs DEF Control, RunOK
  <2> QED
    BY <2>2, <2>3, TimeoutAssumption, StartupAssumption DEF Control, RunOK, StartupOK
<1> USE DEF Outcomes, Codes
<1>1. ASSUME NEW o \in Outcomes, o \notin {"Healthy", "PodStartupDurationExceeded",
             "PodTimeout", "LocalDNSTimeout"}, Return(o)
      PROVE  RecordsRight
  <2>1. Right(Checker, o)' /\ Fits(o)'
    BY <1>0, <1>1 DEF Right, Fits
  <2> QED
    BY <1>0, <1>1, <2>1 DEF RecordsRight, Return
<1>2. CASE Prepare
  <2>1. RecordsRight
    BY <1>1, <1>2 DEF Prepare, RecordsRight
  <2>2. StartupProgress'
    BY <1>2 DEF Prepare, Return, NextCall, startup, StartupProgress
  <2> QED
    BY <2>1, <2>2
<1>3. CASE CreateVerdictPod
  <2>1. RecordsRight
    BY <1>1, <1>3 DEF CreateVerdictPod, RecordsRight
  <2>2. StartupProgress'
    BY <1>0, <1>3 DEF CreateVerdictPod, Return, NextCall, StartupProgress, Now
  <2> QED
    BY <2>1, <2>2
<1>4. CASE Poll
  <2>1. RecordsRight
    BY <1>4 DEF Poll, RecordsRight
  <2>2. StartupProgress'
    BY <1>0, <1>4 DEF Poll, NextCall, thePod, StartupProgress, Now, None
  <2> QED
    BY <2>1, <2>2
<1>5. CASE Wake
  <2>1. RecordsRight
    BY <1>5 DEF Wake, RecordsRight
  <2>2. StartupProgress'
    BY <1>5 DEF Wake, NextCall, startup, StartupProgress
  <2> QED
    BY <2>1, <2>2
<1>6. CASE PollEnds
  <2>1. pc' = "idle" /\ UNCHANGED startup /\ pc = "sleep"
    BY <1>6 DEF PollEnds, Return
  <2>2. StartupProgress'
    BY <2>1 DEF startup, StartupProgress
  <2>3. CASE ctx = "expired"
    <3>1. wait <= Second
      <4>1. Limit = Second
        BY <2>1 DEF Limit, Queries
      <4> QED
        BY <4>1, <1>0 DEF Control, RunOK
    <3>2. ~missed /\ allotted >= StartupTimeout + Pulling + Second
            => 2 * Startup > 2 * WholeLimit - 3 * Second
      <4>1. SUFFICES ASSUME ~missed, allotted >= StartupTimeout + Pulling + Second
                     PROVE  2 * Startup > 2 * WholeLimit - 3 * Second
        OBVIOUS
      <4>2. Second > 0 /\ WholeLimit \in Int /\ WholeLimit < StartupTimeout + Second
        BY <1>0, TimeoutAssumption, WholeLimitIs
      <4>3. left = 0 /\ Now = phase + Timeout /\ born = phase + Timeout - allotted
        BY <1>0, <2>1, <2>3 DEF StartupProgress, Now
      <4>4. Pulling \in Int
        BY <1>0 DEF Pulling, Now
      <4>5. (IF started # None THEN started ELSE Now) >= Now - Second
        BY <1>0, <2>1, <3>1, <4>1, <4>2, <4>3 DEF StartupProgress
      <4> DEFINE end == IF started # None THEN started ELSE Now
      <4>6. end \in Int /\ Startup = end - born - Pulling
        BY <1>0, <4>3 DEF Startup
      <4> HIDE DEF end
      <4>7. end >= Now - Second
        BY <4>5 DEF end
      <4> QED
        BY <1>0, <4>1, <4>2, <4>3, <4>4, <4>6, <4>7
    <3>3. UNCHANGED <<missed, allotted>> /\ Pulling' = Pulling /\ Startup' = Startup
      BY <1>0, <2>1 DEF startup, Pulling, Startup, Now
    <3>4. Right(Checker, "PodStartupDurationExceeded")'
      BY <1>0, <2>3, <3>2, <3>3 DEF Right
    <3> QED
      BY <1>0, <1>6, <2>1, <2>2, <2>3, <3>4 DEF PollEnds, RecordsRight, Return, Fits
  <2>4. CASE ctx # "expired"
    BY <1>1, <1>6, <2>2, <2>4 DEF PollEnds
  <2> QED
    BY <2>3, <2>4
<1>7. CASE ListEvents
  <2>1. UNCHANGED startup /\ pc = "listEvents" /\ started # None
    BY <1>7 DEF ListEvents, StartupProgress
  <2>2. ASSUME Answered, event, Measured >= StartupTimeout,
               Return("PodStartupDurationExceeded")
        PROVE  RecordsRight /\ StartupProgress'
    <3>1. pulled # None
      BY <2>2 DEF StartupProgress
    <3>2. 2 * (started - born - pulled) > 2 * WholeLimit - 3 * Second
      BY <1>0, <2>2, Measuring DEF Measured
    <3>3. Startup' = started - born - pulled
      BY <2>1, <3>1 DEF startup, Startup, Pulling
    <3>4. Right(Checker, "PodStartupDurationExceeded")'
      BY <1>0, <3>2, <3>3 DEF Right
    <3> QED
      BY <1>0, <2>1, <2>2, <3>4 DEF RecordsRight, Return, Fits, startup, StartupProgress
  <2>3. ASSUME Answered, event, ~(Measured >= StartupTimeout), NextCall("getPodIP"),
               UNCHANGED samples
        PROVE  RecordsRight /\ StartupProgress'
    <3>1. pulled # None
      BY <2>3 DEF StartupProgress
    <3>2. Measured < StartupTimeout
      <4>1. ToSecond(started) \in Int /\ ToSecond(born) \in Int
        BY <1>0, TimeoutAssumption DEF ToSecond
      <4>2. ToSecond(started) - ToSecond(born) - pulled \in Int
        BY <1>0, <4>1
      <4>3. Measured \in Int
        <5>1. PICK q \in Int : Measured = q * Second
          BY <4>2, Rounding DEF Measured
        <5> QED
          BY <1>0, <5>1
      <4> QED
        BY <1>0, <2>3, <4>3
    <3>3. 2 * (started - born - pulled) < 2 * WholeLimit + Second
      BY <1>0, <3>2, Measuring DEF Measured
    <3>4. StartupProgress'
      BY <2>1, <2>3, <3>1, <3>3 DEF startup, NextCall, StartupProgress
    <3> QED
      BY <2>3, <3>4 DEF RecordsRight
  <2>4. ASSUME Return("error") PROVE RecordsRight /\ StartupProgress'
    BY <1>1, <2>1, <2>4 DEF startup, Return, StartupProgress
  <2> QED
    BY <1>7, <2>2, <2>3, <2>4 DEF ListEvents
<1>8. CASE GetPodIP
  <2>1. RecordsRight
    BY <1>1, <1>8 DEF GetPodIP, RecordsRight
  <2>2. StartupProgress'
    BY <1>8 DEF GetPodIP, Return, NextCall, startup, StartupProgress
  <2> QED
    BY <2>1, <2>2
<1>9. CASE Dial
  <2>1. UNCHANGED <<born, pulling, pulled, event, started, phase, allotted, missed>>
          /\ pc' = "idle" /\ pc = "dial"
    BY <1>9 DEF Dial, thePod, Return
  <2>2. StartupProgress'
    BY <2>1 DEF StartupProgress
  <2>3. ASSUME connected' = TRUE, Return("Healthy") PROVE RecordsRight
    <3>1. /\ started # None /\ pulled # None
          /\ event /\ 2 * (started - born - pulled) < 2 * WholeLimit + Second
      BY <2>1 DEF StartupProgress
    <3>2. Startup' = started - born - pulled
      BY <2>1, <3>1 DEF Startup, Pulling
    <3>3. Right(Checker, "Healthy")'
      BY <1>0, <2>1, <2>3, <3>1, <3>2 DEF Right
    <3> QED
      BY <1>0, <2>3, <3>3 DEF RecordsRight, Return, Fits
  <2>4. ASSUME NEW o \in {"RequestTimeout", "RequestFailed"}, Return(o) PROVE RecordsRight
    BY <1>1, <2>4
  <2> QED
    BY <1>9, <2>2, <2>3, <2>4 DEF Dial
<1> QED
  BY <1>2, <1>3, <1>4, <1>5, <1>6, <1>7, <1>8, <1>9 DEF StartupStep

-----------------------------------------------------------------------------
(* All steps.                                                              *)

\* A step of a run records what is right, and knows as much as the last.
LEMMA CheckStepRight ==
    ASSUME Control, DNSOK', Progress, CheckStep
    PROVE  RecordsRight /\ Progress'
<1> USE DEF Progress
<1>0. GoesOn /\ Where
  BY CheckGoesOn DEF Control, RunOK
<1>1. CASE DNSStep /\ UNCHANGED <<policy, served, startup>>
  <2>1. check \in {"CoreDNS", "CoreDNSPerPod", "LocalDNS"}
    BY <1>0, <1>1 DEF Where, DNSStep, GetService, QueryService, QueryLocalDNS, ListEndpoints,
                      QueryPodAnswered, QueryPodFails
  <2>2. RecordsRight /\ DNSProgress'
    BY <1>1, SingleQueries, Listing, Answers, NoAnswer DEF DNSStep
  <2>3. OnceProgress' /\ StartupProgress'
    <3>1. /\ pc' \notin StartupCalls \cup {"dryRun", "listMetrics"}
          /\ UNCHANGED <<event, pulled, started>>
      BY <1>0, <1>1, <2>1 DEF GoesOn, Where, startup
    <3> QED
      BY <3>1 DEF OnceProgress, StartupProgress, StartupCalls
  <2> QED
    BY <2>2, <2>3
<1>2. CASE /\ (PolicyStep /\ UNCHANGED <<dns, served, startup>>)
             \/ (ListMetrics /\ UNCHANGED <<dns, policy, startup>>)
  <2>1. check \in {"AzurePolicy", "MetricsServer"}
    BY <1>0, <1>2 DEF Where, PolicyStep, NewClientFails, DryRun, ListMetrics
  <2>2. RecordsRight /\ OnceProgress'
    BY <1>2, Single
  <2>3. DNSProgress' /\ StartupProgress'
    <3>1. /\ pc' \notin StartupCalls \cup {"getService", "queryService", "queryLocal",
                                           "listEndpoints", "queryPod"}
          /\ UNCHANGED <<event, pulled, started>>
      BY <1>0, <1>2, <2>1 DEF GoesOn, Where, startup
    <3> QED
      BY <3>1 DEF DNSProgress, StartupProgress, StartupCalls
  <2> QED
    BY <2>2, <2>3
<1>3. CASE StartupStep /\ UNCHANGED <<dns, policy, served>>
  <2>1. check = "PodStartup"
    BY <1>0, <1>3 DEF Where, StartupStep, Prepare, CreateVerdictPod, Poll, Wake, PollEnds,
                      ListEvents, GetPodIP, Dial, StartupCalls
  <2>2. RecordsRight /\ StartupProgress'
    BY <1>3, Starting
  <2>3. DNSProgress' /\ OnceProgress'
    <3>1. pc' \notin {"getService", "queryService", "queryLocal", "listEndpoints", "queryPod",
                      "dryRun", "listMetrics"}
      BY <1>0, <2>1 DEF GoesOn, Where
    <3> QED
      BY <3>1 DEF DNSProgress, OnceProgress
  <2> QED
    BY <2>2, <2>3
<1> QED
  BY <1>1, <1>2, <1>3 DEF CheckStep

\* What is right stays so: the histories grow, and nobody touches the Pod after
\* the run.
LEMMA StaysRight ==
    ASSUME Control, UNCHANGED check, samples # <<>>, NEW n, NEW o, Right(n, o),
           \/ CheckStep
           \/ PodStep /\ UNCHANGED dns
           \/ (Tick \/ Shutdown \/ UNCHANGED run) /\ UNCHANGED <<dns, policy, served, startup>>
    PROVE  Right(n, o)'
<1>1. CASE check = "CoreDNSPerPod"
  <2>1. /\ UNCHANGED <<endpoints, budget>>
        /\ answered \subseteq answered' /\ faults \subseteq faults'
    <3>1. CASE UNCHANGED dns
      BY <3>1 DEF dns
    <3>2. CASE CheckStep
      BY <3>2 DEF Control, SamplesOK, CheckStep, DNSStep, GetService, QueryService,
                  QueryLocalDNS, ListEndpoints, QueryPodAnswered, QueryPodFails, dns, Hear, Miss
    <3> QED
      BY <3>1, <3>2
  <2>2. Heard(n) => Heard(n)'
    BY <2>1 DEF Heard
  <2>3. Demand(n)' = Demand(n)
    BY <2>1 DEF Demand, Queried
  <2> QED
    BY <1>1, <2>1, <2>2, <2>3 DEF Right, OwnTimeout
<1>2. CASE check # "CoreDNSPerPod"
  <2>1. pc = "idle"
    BY <1>2 DEF Control, SamplesOK
  <2>2. ~CheckStep /\ ~PodStep /\ ~Tick
    BY <2>1, CheckGoesOn DEF GoesOn, PodStep, Tick
  <2>3. UNCHANGED <<dns, policy, served, startup>> /\ (Shutdown \/ UNCHANGED run)
    BY <2>2
  <2>4. UNCHANGED left /\ (ctx = "expired" <=> ctx' = "expired")
    BY <2>3 DEF Shutdown, run
  <2>5. UNCHANGED <<answered, faults, endpoints, e, budget, violation, named, served>>
    BY <2>3 DEF dns, policy
  <2>6. CASE check = "CoreDNS"
    <3>1. Heard(e)' <=> Heard(e)
      BY <2>5 DEF Heard
    <3>2. \A m : Heard(m)' <=> Heard(m)
      BY <2>5 DEF Heard
    <3>3. Demand(e)' = Demand(e)
      BY <2>5 DEF Demand, Queried
    <3>4. OwnTimeout(e)' <=> OwnTimeout(e)
      BY <2>5, <3>3 DEF OwnTimeout
    <3>5. /\ o = "Healthy" => /\ <<0, 0>> \in answered'
                              /\ \E m \in DOMAIN endpoints' : Ready(endpoints'[m])
                              /\ \A m \in DOMAIN endpoints' : Ready(endpoints'[m]) => Heard(m)'
          /\ o = "PodTimeout" => OwnTimeout(e)'
      BY <2>5, <2>6, <3>2, <3>4 DEF Right
    <3> QED
      BY <2>6, <3>5 DEF Right
  <2>7. CASE check \in {"LocalDNS", "AzurePolicy", "MetricsServer"}
    BY <2>5, <2>7 DEF Right
  <2>8. CASE check = "PodStartup"
    <3>1. Startup' = Startup /\ Pulling' = Pulling
          /\ UNCHANGED <<connected, started, event, missed, allotted>>
      BY <2>3, <2>4 DEF startup, Startup, Pulling, Now
    <3> QED
      BY <2>4, <2>8, <3>1 DEF Right
  <2> QED
    BY <1>2, <2>6, <2>7, <2>8 DEF Control, RunOK, Checks
<1> QED
  BY <1>1, <1>2

\* All samples stay right.
LEMMA AllStayRight ==
    ASSUME Control, AllRight, UNCHANGED check,
           \/ CheckStep
           \/ PodStep /\ UNCHANGED dns
           \/ (Tick \/ Shutdown \/ UNCHANGED run) /\ UNCHANGED <<dns, policy, served, startup>>
    PROVE  \A i \in DOMAIN samples : \E o \in Outcomes :
                /\ Fits(o)' /\ samples[i] = Sample(samples[i].about, o)
                /\ \A n : n = samples[i].about => Right(n, o)'
<1> SUFFICES ASSUME NEW i \in DOMAIN samples
             PROVE  \E o \in Outcomes :
                        /\ Fits(o)' /\ samples[i] = Sample(samples[i].about, o)
                        /\ \A n : n = samples[i].about => Right(n, o)'
  OBVIOUS
<1>1. PICK o \in Outcomes : Fits(o) /\ samples[i] = Sample(samples[i].about, o)
                              /\ Right(samples[i].about, o)
  BY DEF AllRight
<1>2. samples # <<>>
  OBVIOUS
<1>3. ASSUME NEW n, n = samples[i].about PROVE Right(n, o)'
  <2>1. Right(n, o)
    BY <1>1, <1>3
  <2> QED
    BY <1>2, <2>1, StaysRight
<1>4. Fits(o)'
  BY <1>1 DEF Fits
<1> QED
  BY <1>1, <1>3, <1>4

\* Time passes, the Pod goes on, the process is told to stop, or nothing happens.
LEMMA OthersProgress ==
    ASSUME Control, Progress,
           \/ PodStep /\ UNCHANGED <<run, dns, policy, served>>
           \/ (Tick \/ Shutdown \/ UNCHANGED run) /\ UNCHANGED <<dns, policy, served, startup>>
    PROVE  Progress'
<1>0. /\ left \in Nat /\ wait \in Nat /\ budget \in Nat /\ phase \in Nat /\ Timeout \in Nat
      /\ born \in Int /\ pulling \in Int /\ pulled \in Int /\ started \in Int
      /\ pulling <= Now
  BY LimitIs, TimeoutAssumption DEF Control, RunOK, DNSOK, StartupOK
<1>1. CASE PodStep /\ UNCHANGED <<run, dns, policy, served>>
  <2>1. UNCHANGED <<check, pc, left, wait>> /\ UNCHANGED <<violation, served>>
    BY <1>1 DEF run, policy
  <2>2. DNSProgress'
    <3>1. UNCHANGED <<endpoints, e, a, answered, budget>>
      BY <1>1 DEF dns
    <3>2. pc = "queryPod" => Before(e, a)' = Before(e, a)
      BY <2>1, <3>1 DEF Before, Queried
    <3>3. \A n : Heard(n)' <=> Heard(n)
      BY <3>1 DEF Heard
    <3>4. Queried(endpoints)' = Queried(endpoints)
      BY <2>1, <3>1 DEF Queried
    <3> QED
      BY <2>1, <3>1, <3>2, <3>3, <3>4 DEF Progress, DNSProgress
  <2>3. OnceProgress'
    BY <2>1 DEF Progress, OnceProgress
  <2>4. Now \in Nat /\ Now' = Now /\ born # None /\ UNCHANGED <<phase, allotted, missed>>
    BY <1>0, <1>1, <2>1 DEF Control, RunOK, Now, PodStep
  <2>5. StartupProgress'
    <3>1. CASE BeginPull
      BY <2>1, <2>4, <3>1 DEF BeginPull, Progress, StartupProgress, None
    <3>2. CASE EndPull
      BY <1>0, <2>1, <2>4, <3>2 DEF EndPull, Progress, StartupProgress, None
    <3>3. CASE StartContainer
      BY <1>0, <2>1, <2>4, <3>3 DEF StartContainer, Progress, StartupProgress, None
    <3>4. CASE StoreEvent
      BY <2>1, <2>4, <3>4 DEF StoreEvent, Progress, StartupProgress, None
    <3> QED
      BY <1>1, <3>1, <3>2, <3>3, <3>4 DEF PodStep
  <2> QED
    BY <2>2, <2>3, <2>5 DEF Progress
<1>2. CASE (Tick \/ Shutdown \/ UNCHANGED run) /\ UNCHANGED <<dns, policy, served, startup>>
  <2>1. UNCHANGED <<check, pc>> /\ UNCHANGED <<violation, served>>
    BY <1>2 DEF Tick, Shutdown, run, policy
  <2>2. \/ left' = left - 1 /\ wait' = wait + 1
        \/ UNCHANGED <<left, wait>>
    BY <1>2 DEF Tick, Shutdown, run
  <2>3. DNSProgress'
    <3>1. UNCHANGED <<endpoints, e, a, answered, budget>>
      BY <1>2 DEF dns
    <3>2. Before(e, a)' = Before(e, a)
      BY <2>1, <3>1 DEF Before, Queried
    <3>3. \A n : Heard(n)' <=> Heard(n)
      BY <3>1 DEF Heard
    <3>4. Queried(endpoints)' = Queried(endpoints)
      BY <2>1, <3>1 DEF Queried
    <3>5. pc = "queryPod" => QueryTimeout * Cardinality(Before(e, a)) \in Nat
      BY BeforeCounts, TimeoutAssumption DEF Control
    <3>6. ASSUME pc = "queryPod"
          PROVE  budget' - left' <= QueryTimeout * Cardinality(Before(e, a)') + wait'
      <4> DEFINE spent == QueryTimeout * Cardinality(Before(e, a))
      <4>1. spent \in Nat /\ budget - left <= spent + wait
        BY <3>5, <3>6 DEF Progress, DNSProgress
      <4>2. QueryTimeout * Cardinality(Before(e, a)') = spent
        BY <3>2
      <4> HIDE DEF spent
      <4>3. budget - left' <= spent + wait'
        BY <1>0, <2>2, <4>1
      <4> QED
        BY <3>1, <4>2, <4>3
    <3>7. pc = "queryLocal" => left' + wait' = Timeout
      BY <1>0, <2>2 DEF Progress, DNSProgress
    <3> QED
      BY <2>1, <3>1, <3>3, <3>4, <3>6, <3>7 DEF Progress, DNSProgress
  <2>4. OnceProgress'
    BY <2>1 DEF Progress, OnceProgress
  <2>5. StartupProgress'
    BY <1>0, <1>2, <2>1, <2>2 DEF startup, Progress, StartupProgress, Now
  <2> QED
    BY <2>3, <2>4, <2>5 DEF Progress
<1> QED
  BY <1>1, <1>2

LEMMA NextRight == Control /\ DNSOK' /\ Progress /\ AllRight /\ [Next]_vars
                        => Progress' /\ AllRight'
<1> SUFFICES ASSUME Control, DNSOK', Progress, AllRight, [Next]_vars
             PROVE  Progress' /\ AllRight'
  OBVIOUS
<1>1. CASE StartRun
  <2>1. AllRight'
    BY <1>1 DEF StartRun, BeginRun, AllRight
  <2>2. /\ pc' \in {"getService", "queryLocal", "listEndpoints", "dryRun", "listMetrics", "prepare"}
        /\ check' = check /\ pc' = "listEndpoints" => check = "CoreDNSPerPod"
    BY <1>1, FirstCalls DEF StartRun, BeginRun, Control, RunOK, Checks
  <2>3. Progress'
    BY <1>1, <2>2, TimeoutAssumption
       DEF StartRun, BeginRun, DNSReset, PolicyReset, MetricsReset, StartupReset, Progress,
           DNSProgress, OnceProgress, StartupProgress, StartupCalls
  <2> QED
    BY <2>1, <2>3
<1>2. ASSUME UNCHANGED samples,
             \A i \in DOMAIN samples : \E o \in Outcomes :
                /\ Fits(o)' /\ samples[i] = Sample(samples[i].about, o)
                /\ \A n : n = samples[i].about => Right(n, o)'
      PROVE  AllRight'
  BY <1>2 DEF AllRight
<1>3. CASE CheckStep
  <2>1. RecordsRight /\ Progress'
    BY <1>3, CheckStepRight
  <2>2. check' = check
    BY <1>3, CheckGoesOn DEF GoesOn
  <2>3. \A i \in DOMAIN samples : \E o \in Outcomes :
            /\ Fits(o)' /\ samples[i] = Sample(samples[i].about, o)
            /\ \A n : n = samples[i].about => Right(n, o)'
    BY <1>3, <2>2, AllStayRight
  <2>4. ASSUME NEW n, NEW u \in Outcomes, Fits(u)', Right(n, u)',
               samples' = Append(samples, Sample(n, u))
        PROVE  AllRight'
    <3> DEFINE Recorded == {Sample(m, o) : m \in 0..Len(endpoints),
                                           o \in {v \in Outcomes : Fits(v)}}
    <3>1. samples \in Seq(Recorded)
      BY DEF Control, SamplesOK
    <3> HIDE DEF Recorded
    <3>2. /\ DOMAIN samples' = 1..(Len(samples) + 1)
          /\ samples'[Len(samples) + 1] = Sample(n, u)
          /\ \A i \in DOMAIN samples : samples'[i] = samples[i]
      BY <2>4, <3>1, AppendIs
    <3>3. Len(samples) \in Nat /\ DOMAIN samples = 1..Len(samples)
      BY <3>1
    <3>4. Sample(n, u).about = n
      BY DEF Sample
    <3>5. ASSUME NEW i \in DOMAIN samples'
          PROVE  \E o \in Outcomes : /\ Fits(o)'
                                     /\ samples'[i] = Sample(samples'[i].about, o)
                                     /\ \A m : m = samples'[i].about => Right(m, o)'
      <4>1. CASE i \in DOMAIN samples
        BY <2>3, <3>2, <4>1
      <4>2. CASE i = Len(samples) + 1
        BY <2>4, <3>2, <3>4, <4>2
      <4> QED
        BY <3>2, <3>3, <4>1, <4>2
    <3> QED
      BY <3>5 DEF AllRight
  <2> QED
    BY <1>2, <2>1, <2>3, <2>4 DEF RecordsRight
<1>4. CASE \/ PodStep /\ UNCHANGED <<run, dns, policy, served>>
           \/ (Tick \/ Shutdown \/ UNCHANGED run) /\ UNCHANGED <<dns, policy, served, startup>>
  <2>1. UNCHANGED <<check, samples>>
    BY <1>4 DEF run, Tick, Shutdown
  <2>2. AllRight'
    BY <1>2, <1>4, <2>1, AllStayRight
  <2>3. Progress'
    BY <1>4, OthersProgress
  <2> QED
    BY <2>2, <2>3
<1>5. CASE UNCHANGED vars
  BY <1>5, <1>4 DEF vars
<1> QED
  BY <1>1, <1>3, <1>4, <1>5 DEF Next

LEMMA InitRight == Init => Progress /\ AllRight
  BY DEF Init, RunInit, DNSInit, PolicyInit, MetricsInit, StartupInit, Progress, DNSProgress,
         OnceProgress, StartupProgress, StartupCalls, AllRight

LEMMA RightHolds == Spec => [](Control /\ Progress /\ AllRight)
<1>1. Control /\ [Next]_vars => DNSOK'
  BY NextDNSOK
<1> QED
  BY <1>1, InitControl, NextControl, InitRight, NextRight, PTL DEF Spec

-----------------------------------------------------------------------------
(* The properties of samples.                                              *)

\* A healthy sample of any checker is earned: every query it stands for was
\* answered, the violation reported, the API served, the Pod connected to and what
\* its image pull took known.
THEOREM Earned == Spec => []HealthyIsEarned
<1>1. Control /\ AllRight => HealthyIsEarned
  <2> SUFFICES ASSUME Control, AllRight, NEW i \in DOMAIN samples,
                      samples[i].status = "Healthy"
               PROVE  CASE check = "CoreDNS" ->
                              /\ <<0, 0>> \in answered
                              /\ \E n \in DOMAIN endpoints : Ready(endpoints[n])
                              /\ \A n \in DOMAIN endpoints : Ready(endpoints[n]) => Heard(n)
                        [] check = "CoreDNSPerPod" -> Heard(samples[i].about)
                        [] check = "LocalDNS" -> <<0, 0>> \in answered
                        [] check = "AzurePolicy" -> violation \/ named
                        [] check = "MetricsServer" -> served
                        [] check = "PodStartup" -> connected /\ started # None /\ event
    BY DEF HealthyIsEarned
  <2>1. Right(samples[i].about, "Healthy")
    <3>1. PICK o \in Outcomes : samples[i] = Sample(samples[i].about, o)
                                  /\ Right(samples[i].about, o)
      BY DEF AllRight
    <3>2. o = "Healthy"
      BY <3>1, SampleIs
    <3> QED
      BY <3>1, <3>2
  <2>2. check \in Checks
    BY DEF Control, RunOK
  <2> QED
    BY <2>1, <2>2 DEF Right, Checks
<1> QED
  BY <1>1, RightHolds, PTL

\* A sample that is not healthy is never put on what worked: an endpoint's comes
\* from a failed query of that endpoint, and no violation was reported, no list
\* served.
THEOREM Blame == Spec => []BlameHasCause
<1>1. Control /\ AllRight => BlameHasCause
  <2> SUFFICES ASSUME Control, AllRight, NEW i \in DOMAIN samples,
                      samples[i].status # "Healthy"
               PROVE  CASE check = "CoreDNSPerPod" -> \E f \in faults : f[1] = samples[i].about
                        [] check = "AzurePolicy" -> ~violation
                        [] check = "MetricsServer" -> ~served
                        [] OTHER -> TRUE
    BY DEF BlameHasCause
  <2>1. PICK o \in Outcomes : samples[i] = Sample(samples[i].about, o)
                                /\ Right(samples[i].about, o)
    BY DEF AllRight
  <2>2. o # "Healthy"
    BY <2>1, SampleIs
  <2> QED
    BY <2>1, <2>2 DEF Right
<1> QED
  BY <1>1, RightHolds, PTL

\* An endpoint whose queries, with those before them, fit in the time the run
\* had is only reported as timed out after a silence of QueryTimeout, and so is
\* the local DNS.
THEOREM OwnTimeouts == Spec => []TimeoutIsEarned
<1>1. AllRight => TimeoutIsEarned
  <2> SUFFICES ASSUME AllRight, NEW i \in DOMAIN samples,
                      NEW n, n = IF check = "CoreDNS" THEN e ELSE samples[i].about
               PROVE  CASE samples[i].code = "PodTimeout" ->
                              Demand(n) <= budget => <<n, "silent">> \in faults
                        [] samples[i].code = "LocalDNSTimeout" -> <<0, "silent">> \in faults
                        [] OTHER -> TRUE
    BY DEF TimeoutIsEarned
  <2>1. PICK o \in Outcomes : Fits(o) /\ samples[i] = Sample(samples[i].about, o)
                                /\ Right(samples[i].about, o)
    BY DEF AllRight
  <2>2. CASE samples[i].code = "PodTimeout"
    <3>1. o = "PodTimeout"
      BY <2>1, <2>2, SampleIs
    <3>2. OwnTimeout(n)
      BY <2>1, <3>1 DEF Right, Fits
    <3> QED
      BY <2>2, <3>2 DEF OwnTimeout
  <2>3. CASE samples[i].code = "LocalDNSTimeout"
    <3>1. o = "LocalDNSTimeout"
      BY <2>1, <2>3, SampleIs
    <3> QED
      BY <2>1, <2>3, <3>1 DEF Right, Fits
  <2> QED
    BY <2>2, <2>3
<1> QED
  BY <1>1, RightHolds, PTL

\* Whatever the length of a second and the limit, a whole number of seconds or not:
\* a Pod that is healthy took less than half a second more than the limit rounded up
\* to the next second, and one said to exceed the limit took more than that less a
\* second and a half, if it was measured or the run had the time to see it.
THEOREM StartupTruth == Spec => []StartupIsMeasured
<1>1. AllRight => StartupIsMeasured
  <2> SUFFICES ASSUME AllRight, NEW i \in DOMAIN samples
               PROVE  CASE samples[i].code = "PodStartupDurationExceeded" ->
                              (\/ ctx # "expired"
                               \/ ~missed /\ allotted >= StartupTimeout + Pulling + Second)
                              => 2 * Startup > 2 * WholeLimit - 3 * Second
                        [] check = "PodStartup" /\ samples[i].code = "Healthy" ->
                              2 * Startup < 2 * WholeLimit + Second
                        [] OTHER -> TRUE
    BY DEF StartupIsMeasured
  <2>1. PICK o \in Outcomes : Fits(o) /\ samples[i] = Sample(samples[i].about, o)
                                /\ Right(samples[i].about, o)
    BY DEF AllRight
  <2>2. CASE samples[i].code = "PodStartupDurationExceeded"
    <3>1. o = "PodStartupDurationExceeded" /\ check = "PodStartup"
      BY <2>1, <2>2, SampleIs DEF Fits
    <3> QED
      BY <2>1, <2>2, <3>1 DEF Right
  <2>3. CASE check = "PodStartup" /\ samples[i].code = "Healthy"
    <3>1. o = "Healthy"
      BY <2>1, <2>3, SampleIs
    <3> QED
      BY <2>1, <2>3, <3>1 DEF Right
  <2> QED
    BY <2>2, <2>3
<1> QED
  BY <1>1, RightHolds, PTL

-----------------------------------------------------------------------------
(* What a run reports, and in which order.                                 *)

Passed(n) == Cardinality({m \in Queried(endpoints) : m < n})
Rank(n) == Cardinality({m \in Queried(endpoints) : m <= n})

\* A per-pod run has one sample for each endpoint it has passed, each at its rank.
InOrder ==
    /\ pc = "listEndpoints" /\ check = "CoreDNSPerPod" => endpoints = <<>>
    /\ pc = "queryPod" /\ check = "CoreDNSPerPod" =>
        /\ Len(samples) = Passed(e)
        /\ \A n \in Queried(endpoints) : n < e => samples[Rank(n)].about = n

\* Ranks count from one, and those of the endpoints passed are taken.
LEMMA Ranks ==
    ASSUME Listed, NEW n \in Queried(endpoints)
    PROVE  /\ n \in Nat /\ Passed(n) \in Nat /\ Rank(n) = Passed(n) + 1
           /\ \A k \in Queried(endpoints) : k < n => Rank(k) \in 1..Passed(n)
<1>1. \A k \in Queried(endpoints) : k \in 1..Len(endpoints)
  BY DEF Listed, Queried
<1>2. n \in Nat /\ Len(endpoints) \in Nat
  BY <1>1 DEF Listed
<1> DEFINE P(k) == {m \in Queried(endpoints) : m < k}
           R(k) == {m \in Queried(endpoints) : m <= k}
<1>3. \A k : P(k) \in SUBSET (1..Len(endpoints)) /\ R(k) \in SUBSET (1..Len(endpoints))
  BY <1>1
<1>4. IsFiniteSet(1..Len(endpoints))
  BY <1>2, FS_Interval
<1>5. \A k : IsFiniteSet(P(k)) /\ IsFiniteSet(R(k))
  <2> TAKE k
  <2> HIDE DEF P, R
  <2> QED
    BY <1>3, <1>4, FS_Subset
<1>6. Cardinality(P(n)) \in Nat
  <2> HIDE DEF P, R
  <2> QED
    BY <1>5, FS_CardinalityType
<1>7. Cardinality(R(n)) = Cardinality(P(n)) + 1
  <2>1. R(n) = P(n) \cup {n} /\ n \notin P(n)
    <3>1. \A m \in Queried(endpoints) : m \in Nat
      BY <1>1
    <3>2. \A m \in Queried(endpoints) : m <= n <=> m < n \/ m = n
      BY <1>2, <3>1
    <3>3. ~(n < n)
      BY <1>2
    <3> QED
      BY <3>2, <3>3
  <2> HIDE DEF P, R
  <2> QED
    BY <1>5, <2>1, FS_AddElement
<1>8. ASSUME NEW k \in Queried(endpoints), k < n
      PROVE  Cardinality(R(k)) \in 1..Cardinality(P(n))
  <2>1. R(k) \subseteq P(n) /\ k \in R(k)
    <3>1. \A m \in Queried(endpoints) : m \in Nat
      BY <1>1
    <3>2. \A m \in Queried(endpoints) : m <= k => m < n
      BY <1>2, <1>8, <3>1
    <3>3. k <= k
      BY <3>1
    <3> QED
      BY <3>2, <3>3
  <2> HIDE DEF P, R
  <2>2. Cardinality(R(k)) <= Cardinality(P(n))
    BY <1>5, <2>1, FS_Subset
  <2>3. Cardinality(R(k)) \in Nat /\ Cardinality(R(k)) # 0
    BY <1>5, <2>1, FS_CardinalityType, FS_EmptySet
  <2> QED
    BY <1>6, <2>2, <2>3
<1> QED
  BY <1>2, <1>6, <1>7, <1>8 DEF Passed, Rank

\* The step from an endpoint to the next, or to the end.
LEMMA NextInOrder ==
    ASSUME Control, DNSOK', InOrder, pc = "queryPod", check = "CoreDNSPerPod",
           NEW o \in Outcomes, GoOn(e, endpoints, Append(samples, Sample(e, o))),
           UNCHANGED endpoints
    PROVE  InOrder' /\ (pc' = "idle" => Reported')
<1>1. Listed /\ e \in Queried(endpoints) /\ e \in Nat
  BY EndpointsAre, Ranks DEF Control, DNSOK
<1>2. DOMAIN endpoints \subseteq Nat
  BY <1>1 DEF Listed
<1>3. check' = check /\ Queried(endpoints)' = Queried(endpoints)
  BY <1>2, <1>1, GoOnIs DEF Queried
<1> DEFINE Recorded == {Sample(n, u) : n \in 0..Len(endpoints), u \in {v \in Outcomes : Fits(v)}}
<1>4. samples \in Seq(Recorded) /\ Len(samples) = Passed(e)
  BY DEF Control, SamplesOK, InOrder
<1> HIDE DEF Recorded
<1>5. samples' = Append(samples, Sample(e, o))
  BY <1>2, <1>1, GoOnIs
<1>6. /\ Len(samples') = Rank(e)
      /\ samples'[Rank(e)].about = e
      /\ \A n \in Queried(endpoints) : n < e => samples'[Rank(n)].about = n
  <2>1. /\ Len(samples') = Len(samples) + 1
        /\ samples'[Len(samples) + 1] = Sample(e, o)
        /\ \A i \in DOMAIN samples : samples'[i] = samples[i]
        /\ DOMAIN samples = 1..Len(samples)
    BY <1>4, <1>5, AppendIs
  <2>2. Rank(e) = Len(samples) + 1
    BY <1>1, <1>4, Ranks
  <2>3. ASSUME NEW n \in Queried(endpoints), n < e
        PROVE  samples'[Rank(n)].about = n
    <3>1. Rank(n) \in DOMAIN samples
      BY <1>1, <1>4, <2>1, <2>3, Ranks
    <3> QED
      BY <2>1, <2>3, <3>1 DEF InOrder
  <2> QED
    BY <2>1, <2>2, <2>3 DEF Sample
<1>7. \A n \in Queried(endpoints) : n \in Nat
  BY <1>2 DEF Queried
<1>8. \A n \in Queried(endpoints) : n <= e => samples'[Rank(n)].about = n
  BY <1>1, <1>6, <1>7
<1>9. CASE pc' = "queryPod"
  <2>1. e' \in Nat /\ e' > e /\ \A m \in Queried(endpoints) : m > e => m >= e'
    BY <1>1, <1>2, <1>9, GoOnIs
  <2>2. \A m \in Queried(endpoints) : m < e' <=> m <= e
    BY <1>1, <1>7, <2>1
  <2>3. Passed(e)' = Rank(e)
    BY <1>3, <2>2 DEF Passed, Rank
  <2>4. \A n : Rank(n)' = Rank(n)
    BY <1>3 DEF Rank
  <2> QED
    BY <1>3, <1>6, <1>8, <1>9, <2>2, <2>3, <2>4 DEF InOrder
<1>10. CASE pc' = "idle"
  <2>1. \A m \in Queried(endpoints) : m <= e
    BY <1>1, <1>2, <1>10, GoOnIs
  <2>2. Rank(e) = Cardinality(Queried(endpoints))
    <3>1. {m \in Queried(endpoints) : m <= e} = Queried(endpoints)
      BY <2>1
    <3> QED
      BY <3>1 DEF Rank
  <2>3. \A n \in Queried(endpoints) :
            samples'[Cardinality({m \in Queried(endpoints) : m <= n})].about = n
    BY <1>8, <2>1 DEF Rank
  <2>4. Reported'
    BY <1>3, <1>6, <2>2, <2>3 DEF Reported
  <2> QED
    BY <1>10, <2>4 DEF InOrder
<1> QED
  BY <1>1, <1>2, <1>9, <1>10, GoOnIs

\* Listing the endpoints begins with the first or ends with none.
LEMMA ListingInOrder ==
    ASSUME Control, DNSOK', InOrder, check = "CoreDNSPerPod", ListEndpoints
    PROVE  InOrder' /\ (pc' = "idle" => Reported')
<1>1. samples = <<>> /\ endpoints = <<>> /\ pc = "listEndpoints"
  BY DEF Control, SamplesOK, InOrder, ListEndpoints
<1>2. Cardinality({}) = 0
  BY FS_EmptySet
<1>3. ASSUME pc' = "idle", UNCHANGED check, UNCHANGED samples,
             \A n \in DOMAIN endpoints' : ~Ready(endpoints'[n])
      PROVE  InOrder' /\ Reported'
  <2>1. Queried(endpoints)' = {}
    BY <1>3 DEF Queried
  <2> QED
    BY <1>1, <1>2, <1>3, <2>1 DEF InOrder, Reported
<1>4. ASSUME NEW l \in EndpointLists, endpoints' = l, GoOn(0, l, samples)
      PROVE  InOrder' /\ (pc' = "idle" => Reported')
  <2>1. l \in Seq({l[n] : n \in DOMAIN l})
    BY EndpointsAssumption
  <2>2. DOMAIN l \subseteq Nat \ {0}
    BY <2>1
  <2>3. /\ UNCHANGED <<check, ctx, left, down>>
        /\ \/ /\ pc' = "queryPod" /\ wait' = 0 /\ samples' = samples /\ a' = 1
              /\ e' \in Queried(l) /\ e' \in Nat /\ e' > 0
              /\ \A m \in Queried(l) : m > 0 => m >= e'
           \/ /\ pc' = "idle" /\ UNCHANGED <<e, a>>
              /\ \A m \in Queried(l) : m <= 0
              /\ samples' = IF check = "CoreDNS"
                             THEN Append(samples, Sample(Checker, "Healthy")) ELSE samples
    BY <1>4, <2>2, GoOnIs
  <2>4. Queried(endpoints)' = Queried(l) /\ \A m \in Queried(l) : m \in Nat \ {0}
    BY <1>4, <2>2, <2>3 DEF Queried
  <2>5. CASE pc' = "queryPod"
    <3>1. \A m \in Queried(endpoints)' : ~(m < e')
      BY <2>3, <2>4, <2>5
    <3>2. {m \in Queried(endpoints)' : m < e'} = {}
      BY <3>1
    <3>3. Passed(e)' = 0
      BY <1>2, <3>2 DEF Passed
    <3> QED
      BY <1>1, <2>3, <2>5, <3>1, <3>3 DEF InOrder
  <2>6. CASE pc' = "idle"
    <3>1. Queried(endpoints)' = {}
      BY <2>3, <2>4, <2>6
    <3> QED
      BY <1>1, <1>2, <2>3, <2>6, <3>1 DEF InOrder, Reported
  <2> QED
    BY <2>3, <2>5, <2>6
<1> QED
  BY <1>1, <1>3, <1>4 DEF ListEndpoints

LEMMA StepInOrder == Control /\ DNSOK' /\ InOrder /\ [Next]_vars
                        => InOrder' /\ (pc # "idle" /\ pc' = "idle" => Reported')
<1> SUFFICES ASSUME Control, DNSOK', InOrder, [Next]_vars
             PROVE  InOrder' /\ (pc # "idle" /\ pc' = "idle" => Reported')
  OBVIOUS
<1>1. CASE StartRun
  BY <1>1, FirstCalls DEF StartRun, BeginRun, DNSReset, InOrder, Control, RunOK, Checks
<1>2. CASE CheckStep
  <2>1. GoesOn
    BY <1>2, CheckGoesOn
  <2>2. CASE check # "CoreDNSPerPod"
    <3>1. samples = <<>>
      BY <2>1, <2>2 DEF Control, SamplesOK, GoesOn
    <3>2. ASSUME pc' = "idle" PROVE Reported'
      <4>1. PICK o \in Outcomes : samples' = Append(samples, Sample(Checker, o))
        BY <2>1, <2>2, <3>2 DEF GoesOn
      <4> QED
        BY <2>1, <2>2, <3>1, <4>1 DEF GoesOn, Reported, Sample
    <3> QED
      BY <2>1, <2>2, <3>2 DEF GoesOn, InOrder
  <2>3. CASE check = "CoreDNSPerPod"
    <3>1. ListEndpoints \/ QueryPodAnswered \/ QueryPodFails
      <4>1. Where
        BY DEF Control, RunOK
      <4> QED
        BY <1>2, <2>3, <4>1
           DEF Where, StartupCalls, CheckStep, DNSStep, GetService, QueryService, QueryLocalDNS,
               PolicyStep, NewClientFails, DryRun, ListMetrics, StartupStep, Prepare,
               CreateVerdictPod, Poll, Wake, PollEnds, ListEvents, GetPodIP, Dial
    <3>2. CASE ListEndpoints
      BY <2>3, <3>2, ListingInOrder
    <3>3. ASSUME NEW o \in Outcomes, pc = "queryPod", UNCHANGED endpoints,
                 GoOn(e, endpoints, Append(samples, Sample(e, o)))
          PROVE  InOrder' /\ (pc' = "idle" => Reported')
      BY <2>3, <3>3, NextInOrder
    <3>4. CASE QueryPodAnswered
      <4>1. CASE NextCall("queryPod") /\ UNCHANGED <<e, samples, endpoints>>
        <5>1. UNCHANGED check /\ pc = "queryPod" /\ pc' = "queryPod"
          BY <3>4, <4>1 DEF NextCall, QueryPodAnswered
        <5>2. Queried(endpoints)' = Queried(endpoints)
          BY <4>1, <5>1 DEF Queried
        <5>3. Passed(e)' = Passed(e) /\ \A n : Rank(n)' = Rank(n)
          BY <4>1, <5>2 DEF Passed, Rank
        <5> QED
          BY <2>3, <4>1, <5>1, <5>2, <5>3 DEF InOrder
      <4> QED
        BY <2>3, <3>3, <3>4, <4>1 DEF QueryPodAnswered, Outcomes, Codes
    <3>5. CASE QueryPodFails
      BY <2>3, <3>3, <3>5 DEF QueryPodFails, Outcomes, Codes
    <3> QED
      BY <3>1, <3>2, <3>4, <3>5
  <2> QED
    BY <2>2, <2>3
<1>3. CASE \/ PodStep /\ UNCHANGED <<run, dns>>
           \/ (Tick \/ Shutdown \/ UNCHANGED run) /\ UNCHANGED dns
  <2>1. UNCHANGED <<check, pc, samples>> /\ UNCHANGED <<endpoints, e>>
    BY <1>3 DEF Tick, Shutdown, run, dns
  <2>2. Queried(endpoints)' = Queried(endpoints)
    BY <2>1 DEF Queried
  <2>3. Passed(e)' = Passed(e) /\ \A n : Rank(n)' = Rank(n)
    BY <2>1, <2>2 DEF Passed, Rank
  <2> QED
    BY <2>1, <2>2, <2>3 DEF InOrder
<1> QED
  BY <1>1, <1>2, <1>3 DEF Next, vars

\* A run ends with one sample about the checker or, per pod, one about each
\* endpoint that is ready and names its pod, in their order.
THEOREM Reports == Spec => EveryRunReports
<1>1. Init => InOrder
  BY DEF Init, RunInit, InOrder
<1>2. Control /\ [Next]_vars => DNSOK'
  BY NextDNSOK
<1>3. Control /\ InOrder /\ [Next]_vars
        => InOrder' /\ [pc # "idle" /\ pc' = "idle" => Reported']_vars
  BY <1>2, StepInOrder
<1> QED
  BY <1>1, <1>3, ControlHolds, PTL DEF Spec, EveryRunReports

=============================================================================
