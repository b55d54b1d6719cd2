------------------------- MODULE PodStartupVerdict -------------------------
(***************************************************************************)
(* How the pod startup checker of pkg/checker/podstartup comes to its      *)
(* verdict: the poll of the Pod, the time stamps it measures with, the     *)
(* image pull events, and the connection. What the run does to objects is  *)
(* in PodStartupChecker; here it is a call that takes time.                *)
(*                                                                         *)
(* The Pod lives in the run's time. The API server stores time stamps in   *)
(* whole seconds; a pull event has the exact duration.                     *)
(***************************************************************************)
EXTENDS CheckerRun

CONSTANT StartupTimeout     \* podStartupConfig.syntheticPodStartupTimeout

\* As validation has it, which asks for no whole number of seconds.
ASSUME StartupAssumption ==
    /\ StartupTimeout \in Nat \ {0}
    /\ Timeout > StartupTimeout + TCPTimeout

None == -1

VARIABLES
    phase,      \* ticks between the last full second and the run's beginning
    born,       \* when the Pod was created
    pulling,    \* when its image pull began
    pulled,     \* how long the pull took, 0 if the image was there
    event,      \* the event that says so is stored
    started,    \* when its container started
    allotted,   \* history: ticks the run had left when the Pod was created
    missed,     \* history: a poll failed
    connected   \* history: the Pod took a connection

startup == <<phase, born, pulling, pulled, event, started, allotted, missed, connected>>
thePod == <<born, pulling, pulled, event, started>>

StartupInit ==
    /\ phase = 0
    /\ born = None /\ pulling = None /\ pulled = None /\ started = None
    /\ event = FALSE /\ missed = FALSE /\ connected = FALSE
    /\ allotted = 0

StartupReset ==
    /\ phase' \in 0..(Second - 1)
    /\ born' = None /\ pulling' = None /\ pulled' = None /\ started' = None
    /\ event' = FALSE /\ missed' = FALSE /\ connected' = FALSE
    /\ allotted' = 0

Now == phase + Timeout - left
ToSecond(t) == t - (t % Second)

-----------------------------------------------------------------------------
(* The Pod.                                                                *)

BeginPull ==
    /\ pulling = None /\ pulled = None
    /\ pulling' = Now
    /\ UNCHANGED <<born, pulled, event, started>>

EndPull ==
    /\ pulled = None
    /\ pulled' = IF pulling = None THEN 0 ELSE Now - pulling
    /\ UNCHANGED <<born, pulling, event, started>>

StartContainer ==
    /\ pulled # None /\ started = None
    /\ started' = Now
    /\ UNCHANGED <<born, pulling, pulled, event>>

\* Events are stored some time after the fact, if at all.
StoreEvent ==
    /\ pulled # None /\ ~event
    /\ event' = TRUE
    /\ UNCHANGED <<born, pulling, pulled, started>>

PodStep ==
    /\ born # None /\ pc # "idle" /\ ctx = "live"
    /\ BeginPull \/ EndPull \/ StartContainer \/ StoreEvent
    /\ UNCHANGED <<phase, allotted, missed, connected>>

-----------------------------------------------------------------------------
(* check, from the first call to the Pod's creation.                       *)

\* Garbage collection, limits, CSI resources, the NodePool.
Prepare ==
    /\ pc = "prepare"
    /\ \/ Answered /\ NextCall("createPod") /\ UNCHANGED samples
       \/ Answered /\ Return("Skipped")
       \/ Return("error")
    /\ UNCHANGED startup

CreateVerdictPod ==
    /\ pc = "createPod"
    /\ \/ /\ Answered
          /\ born' = Now /\ allotted' = left
          /\ NextCall("poll")
          /\ UNCHANGED samples
       \/ \E err \in {"deadline", "other"} :
            /\ Fails(err)
            /\ Return(IF err = "deadline" THEN "PodCreationTimeout" ELSE "PodCreationError")
            /\ UNCHANGED <<born, allotted>>
    /\ UNCHANGED <<phase, pulling, pulled, event, started, missed, connected>>

\* The poll's Get: its errors are ignored.
Poll ==
    /\ pc = "poll"
    /\ \/ /\ Answered
          /\ NextCall(IF started = None THEN "sleep" ELSE "listEvents")
          /\ UNCHANGED missed
       \/ NextCall("sleep") /\ missed' = TRUE
    /\ UNCHANGED <<samples, thePod, phase, allotted, connected>>

Wake ==
    /\ pc = "sleep" /\ wait >= Limit /\ ctx = "live"
    /\ NextCall("poll")
    /\ UNCHANGED <<samples, startup>>

\* PollUntilContextCancel returns the context's error.
PollEnds ==
    /\ pc = "sleep" /\ ctx # "live"
    /\ Return(IF ctx = "expired" THEN "PodStartupDurationExceeded" ELSE "error")
    /\ UNCHANGED startup

\* Duration.Round(time.Second), which rounds half a second away from zero.
RoundToSecond(d) ==
    IF d >= 0 THEN ((2 * d + Second) \div (2 * Second)) * Second
              ELSE -(((2 * (-d) + Second) \div (2 * Second)) * Second)

\* Mutant: the start-up ends when the poll sees the container running.
MutantMeasured == RoundToSecond(Now - ToSecond(born) - pulled)

\* podStartupDuration
Measured == RoundToSecond(ToSecond(started) - ToSecond(born) - pulled)

\* Without the event there is no telling how long the pull took.
ListEvents ==
    /\ pc = "listEvents"
    /\ \/ /\ Answered /\ event
          /\ IF Measured >= StartupTimeout
               THEN Return("PodStartupDurationExceeded")
               ELSE NextCall("getPodIP") /\ UNCHANGED samples
       \/ Return("error")
    /\ UNCHANGED startup

GetPodIP ==
    /\ pc = "getPodIP"
    /\ \/ Answered /\ NextCall("dial") /\ UNCHANGED samples
       \/ Return("error")
    /\ UNCHANGED startup

\* createTCPConnection
Dial ==
    /\ pc = "dial"
    /\ \/ Answered /\ connected' = TRUE /\ Return("Healthy")
       \/ \E err \in {"deadline", "other"} :
            /\ Fails(err)
            /\ Return(IF err = "deadline" THEN "RequestTimeout" ELSE "RequestFailed")
            /\ UNCHANGED connected
    /\ UNCHANGED <<thePod, phase, allotted, missed>>

StartupStep ==
    \/ Prepare \/ CreateVerdictPod \/ Poll \/ Wake \/ PollEnds
    \/ ListEvents \/ GetPodIP \/ Dial

=============================================================================
