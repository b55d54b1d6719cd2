------------------------ MODULE MetricsServerChecker ------------------------
(***************************************************************************)
(* The metrics server checker of pkg/checker/metricsserver: one list of    *)
(* the metrics API.                                                        *)
(***************************************************************************)
EXTENDS CheckerRun

VARIABLE
    served      \* history: the metrics API served the run's list

MetricsInit == served = FALSE
MetricsReset == served' = FALSE

\* check and checkMetricsServerAPI
ListMetrics ==
    /\ pc = "listMetrics"
    /\ \/ Answered /\ served' = TRUE /\ Return("Healthy")
       \/ \E err \in {"deadline", "other"} :
            /\ Fails(err)
            /\ Return(IF err = "deadline" THEN "MetricsServerTimeout"
                                          ELSE "MetricsServerUnavailable")
            /\ UNCHANGED served

=============================================================================
