----------------------------- MODULE DNSChecker -----------------------------
(***************************************************************************)
(* The DNS checker of pkg/checker/dnscheck. With target CoreDNS it queries *)
(* the service and then every address of every ready endpoint, and stops   *)
(* at the first failure; with CoreDNSPerPod it queries the endpoints and   *)
(* records a sample for each that names its pod; with LocalDNS it makes    *)
(* one query.                                                              *)
(***************************************************************************)
EXTENDS CheckerRun, FiniteSetsExt

CONSTANTS
    NoName,         \* an endpoint that does not name its pod
    EndpointLists   \* what the EndpointSlices may hold: sequences of
                    \* [pod, ready, addresses]

ASSUME EndpointsAssumption ==
    \A l \in EndpointLists :
        /\ l \in Seq({l[n] : n \in DOMAIN l})
        /\ \A n \in DOMAIN l :
            l[n].ready \in {"yes", "no", "unset"} /\ l[n].addresses \in Nat \ {0}

VARIABLES
    endpoints,  \* what the EndpointSlices held
    e, a,       \* the endpoint and the address that are queried
    answered,   \* history: <<endpoint, address>> of the queries answered
    faults,     \* history: <<endpoint, why>> of the queries that failed
    budget      \* history: ticks left when the endpoints had been listed

dns == <<endpoints, e, a, answered, faults, budget>>

DNSInit ==
    /\ endpoints = <<>>
    /\ e = 0 /\ a = 0
    /\ answered = {} /\ faults = {}
    /\ budget = 0

DNSReset ==
    /\ endpoints' = <<>>
    /\ e' = 0 /\ a' = 0
    /\ answered' = {} /\ faults' = {}
    /\ budget' = 0

\* A query of e's address a ends.
Hear == answered' = answered \cup {<<e, a>>} /\ UNCHANGED faults
Miss == faults' = faults \cup {<<e, Why>>} /\ UNCHANGED answered

-----------------------------------------------------------------------------
(* The service and LocalDNS.                                               *)

\* getCoreDNSSvcIP: an address, no service or no address, an error.
GetService ==
    /\ pc = "getService"
    /\ \/ Answered /\ NextCall("queryService") /\ UNCHANGED samples
       \/ Answered /\ Return("ServiceNotReady")
       \/ Return("error")
    /\ UNCHANGED dns

QueryService ==
    /\ pc = "queryService"
    /\ \/ Answered /\ Hear /\ NextCall("listEndpoints") /\ UNCHANGED samples
       \/ \E err \in {"deadline", "other"} :
            /\ Fails(err) /\ Miss
            /\ Return(IF err = "deadline" THEN "ServiceTimeout" ELSE "ServiceError")
    /\ UNCHANGED <<endpoints, e, a, budget>>

\* checkLocalDNS
QueryLocalDNS ==
    /\ pc = "queryLocal"
    /\ \/ Answered /\ Hear /\ Return("Healthy")
       \/ \E err \in {"deadline", "other"} :
            /\ Fails(err) /\ Miss
            /\ Return(IF err = "deadline" THEN "LocalDNSTimeout" ELSE "LocalDNSError")
    /\ UNCHANGED <<endpoints, e, a, budget>>

-----------------------------------------------------------------------------
(* The endpoints.                                                          *)

Ready(ep) == ep.ready # "no"

\* The places in list l that are queried.
Queried(l) ==
    {n \in DOMAIN l : Ready(l[n]) /\ (check = "CoreDNSPerPod" => l[n].pod # NoName)}

\* Mutant: endpoints that do not name their pod are not passed over.
MutantLaterUnnamed(n, l) == {m \in DOMAIN l : m > n /\ Ready(l[m])}

\* Mutant: the per-pod loop ends where it should continue.
MutantLater(n, l) ==
    {m \in Queried(l) : m > n /\ \A i \in (n + 1)..m : i \in Queried(l)}

\* Those after place n.
Later(n, l) == {m \in Queried(l) : m > n}

\* The loop goes on after place n of list l; smps is recorded so far.
GoOn(n, l, smps) ==
    IF Later(n, l) # {}
      THEN /\ NextCall("queryPod")
           /\ e' = Min(Later(n, l)) /\ a' = 1
           /\ samples' = smps
      ELSE /\ pc' = "idle"
           /\ samples' = IF check = "CoreDNS"
                           THEN Append(smps, Sample(Checker, "Healthy")) ELSE smps
           /\ UNCHANGED <<check, ctx, left, wait, down, e, a>>

\* getCoreDNSEndpoints. Without a ready endpoint, or on an error, a per-pod
\* check records nothing.
ListEndpoints ==
    /\ pc = "listEndpoints"
    /\ \/ /\ Answered
          /\ \E l \in EndpointLists :
                /\ endpoints' = l
                /\ IF \A n \in DOMAIN l : ~Ready(l[n])
                     THEN /\ IF check = "CoreDNS" THEN Return("PodsNotReady")
                             ELSE pc' = "idle"
                                  /\ UNCHANGED <<check, ctx, left, wait, down, samples>>
                          /\ UNCHANGED <<e, a>>
                     ELSE GoOn(0, l, samples)
          /\ budget' = left
       \/ /\ IF check = "CoreDNS" THEN Return("error")
             ELSE pc' = "idle" /\ UNCHANGED <<check, ctx, left, wait, down, samples>>
          /\ UNCHANGED <<endpoints, e, a, budget>>
    /\ UNCHANGED <<answered, faults>>

\* Mutant: the endpoint is left after its first address.
MutantOneAddress ==
    /\ pc = "queryPod"
    /\ Answered /\ Hear
    /\ GoOn(e, endpoints, IF check = "CoreDNS" THEN samples
                          ELSE Append(samples, Sample(e, "Healthy")))
    /\ UNCHANGED <<endpoints, budget>>

\* Mutant: the error of an earlier endpoint is still there.
MutantStickyError ==
    /\ pc = "queryPod"
    /\ Answered /\ Hear
    /\ IF a < endpoints[e].addresses
         THEN NextCall("queryPod") /\ a' = a + 1 /\ UNCHANGED <<e, samples>>
         ELSE GoOn(e, endpoints, IF check = "CoreDNS" THEN samples
                    ELSE Append(samples, Sample(e, IF faults = {} THEN "Healthy"
                                                                  ELSE "error")))
    /\ UNCHANGED <<endpoints, budget>>

\* The address answers: the next one's turn, or the next endpoint's.
QueryPodAnswered ==
    /\ pc = "queryPod"
    /\ Answered /\ Hear
    /\ IF a < endpoints[e].addresses
         THEN NextCall("queryPod") /\ a' = a + 1 /\ UNCHANGED <<e, samples>>
         ELSE GoOn(e, endpoints, IF check = "CoreDNS" THEN samples
                                 ELSE Append(samples, Sample(e, "Healthy")))
    /\ UNCHANGED <<endpoints, budget>>

\* The first failure ends the check of CoreDNS. In a per-pod check it ends the
\* endpoint's queries, and an error other than a time-out is no verdict.
QueryPodFails ==
    /\ pc = "queryPod"
    /\ \E err \in {"deadline", "other"} :
        /\ Fails(err) /\ Miss
        /\ IF check = "CoreDNS"
             THEN /\ Return(IF err = "deadline" THEN "PodTimeout" ELSE "PodError")
                  /\ UNCHANGED <<e, a>>
             ELSE GoOn(e, endpoints,
                       Append(samples, Sample(e, IF err = "deadline" THEN "PodTimeout"
                                                                     ELSE "error")))
    /\ UNCHANGED <<endpoints, budget>>

DNSStep ==
    \/ GetService \/ QueryService \/ QueryLocalDNS
    \/ ListEndpoints \/ QueryPodAnswered \/ QueryPodFails

=============================================================================
