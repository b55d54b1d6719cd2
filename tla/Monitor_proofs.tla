--------------------------- MODULE Monitor_proofs ---------------------------
(***************************************************************************)
(* Theorems about Monitor: for any set of checkers, whichever of them may  *)
(* hang, no checker's outcome ends the process, a signal reaches every     *)
(* run, and the scheduler abandons none.                                   *)
(***************************************************************************)
EXTENDS Monitor, TLAPS

\* Why the process would exit with 1: some goroutine said so, for a fault or
\* because its loops were stopped, which takes the signal context.
Causes ==
    /\ exit = "1" => failing
    /\ failing => fault \/ ctxDone
    /\ \A c \in Checkers : loop[c] = "stopped" => ctxDone

\* Exactly the scheduled checkers have a loop once main waits, and no checker
\* before; the scheduler returns when all loops are stopped.
Loops ==
    /\ main = "wait" <=> sched # "off"
    /\ \A c \in Checkers : loop[c] # "off" <=> main = "wait" /\ build[c] = "ok"
    /\ sched = "returned" => \A c \in Checkers : loop[c] \in {"off", "stopped"}

-----------------------------------------------------------------------------
(* Types.                                                                  *)

LEMMA InitType == Init => TypeOK
BY DEF Init, TypeOK

\* A step keeps the types. That the loops have no run yet when they are started
\* is a matter of Loops.
LEMMA NextType == TypeOK /\ Loops /\ [Next]_vars => TypeOK'
<1> SUFFICES ASSUME TypeOK, Loops, [Next]_vars PROVE TypeOK'
  OBVIOUS
<1> USE DEF TypeOK, loops
<1>1. CASE ParseConfig
  BY <1>1 DEF ParseConfig, MainFails
<1>2. CASE CreateClient
  BY <1>2 DEF CreateClient, MainFails
<1>3. CASE BuildFails
  BY <1>3 DEF BuildFails, MainFails
<1>4. CASE StartScheduler
  <2>1. \A c \in Checkers : runCtx[c] # "none" <=> loop'[c] = "running"
    BY <1>4 DEF StartScheduler, Loops
  <2> QED
    BY <1>4, <2>1 DEF StartScheduler
<1>5. CASE MainReturns
  BY <1>5 DEF MainReturns
<1>6. CASE ExitOne
  BY <1>6 DEF ExitOne
<1>7. CASE ServerFails \/ ServerStops
  BY <1>7 DEF ServerFails, ServerStops
<1>8. ASSUME NEW c \in Checkers, Tick(c) PROVE TypeOK'
  BY <1>8 DEF Tick
<1>9. ASSUME NEW c \in Checkers, StartRun(c) PROVE TypeOK'
  BY <1>9 DEF StartRun
<1>10. ASSUME NEW c \in Checkers, Expire(c) PROVE TypeOK'
  BY <1>10 DEF Expire
<1>11. ASSUME NEW c \in Checkers, NEW o \in Outcomes, EndRun(c, o) PROVE TypeOK'
  <2>1. samples' \in [Checkers -> SUBSET {Labels(x) : x \in Outcomes}]
    <3>1. Labels(o) \in {Labels(x) : x \in Outcomes}
      OBVIOUS
    <3> QED
      BY <1>11, <3>1 DEF EndRun
  <2> QED
    BY <1>11, <2>1 DEF EndRun
<1>12. ASSUME NEW c \in Checkers, StopLoop(c) PROVE TypeOK'
  BY <1>12 DEF StopLoop
<1>13. CASE StartReturns
  BY <1>13 DEF StartReturns
<1>14. CASE Signal
  BY <1>14 DEF Signal
<1>15. CASE UNCHANGED vars
  BY <1>15 DEF vars
<1> QED
  BY <1>1, <1>2, <1>3, <1>4, <1>5, <1>6, <1>7, <1>8, <1>9, <1>10, <1>11, <1>12,
     <1>13, <1>14, <1>15 DEF Next, MainStep, CheckerStep

-----------------------------------------------------------------------------
(* Causes and loops.                                                       *)

LEMMA InitInv == Init => Causes /\ Loops
BY DEF Init, Causes, Loops

\* No step makes the process fail without a cause. The scheduler's loops end
\* for the signal only, and it reports an error only if it had loops.
LEMMA NextCauses == TypeOK /\ Causes /\ Loops /\ [Next]_vars => Causes'
<1> SUFFICES ASSUME TypeOK, Causes, Loops, [Next]_vars PROVE Causes'
  OBVIOUS
<1> USE DEF Causes, loops
<1>1. CASE ParseConfig \/ CreateClient \/ BuildFails
  BY <1>1 DEF ParseConfig, CreateClient, BuildFails, MainFails
<1>2. CASE StartScheduler
  BY <1>2 DEF StartScheduler
<1>3. CASE MainReturns \/ ExitOne
  BY <1>3 DEF MainReturns, ExitOne
<1>4. CASE ServerFails \/ ServerStops
  BY <1>4 DEF ServerFails, ServerStops
<1>5. ASSUME NEW c \in Checkers, Tick(c) \/ Expire(c) PROVE Causes'
  BY <1>5 DEF Tick, Expire
<1>6. ASSUME NEW c \in Checkers, StartRun(c) PROVE Causes'
  BY <1>6 DEF StartRun, TypeOK
<1>7. ASSUME NEW c \in Checkers, NEW o \in Outcomes, EndRun(c, o) PROVE Causes'
  BY <1>7 DEF EndRun, TypeOK
<1>8. ASSUME NEW c \in Checkers, StopLoop(c) PROVE Causes'
  BY <1>8 DEF StopLoop
<1>9. CASE StartReturns
  <2>1. failing' => fault \/ ctxDone
    BY <1>9 DEF StartReturns, Scheduled
  <2> QED
    BY <1>9, <2>1 DEF StartReturns
<1>10. CASE Signal
  BY <1>10 DEF Signal
<1>11. CASE UNCHANGED vars
  BY <1>11 DEF vars
<1> QED
  BY <1>1, <1>2, <1>3, <1>4, <1>5, <1>6, <1>7, <1>8, <1>9, <1>10, <1>11
     DEF Next, MainStep, CheckerStep

\* No step takes a scheduled checker's loop away, or starts a run once the
\* scheduler has returned.
LEMMA NextLoops == TypeOK /\ Loops /\ [Next]_vars => Loops'
<1> SUFFICES ASSUME TypeOK, Loops, [Next]_vars PROVE Loops'
  OBVIOUS
<1> USE DEF Loops, loops
<1>1. CASE ParseConfig \/ CreateClient \/ BuildFails
  BY <1>1 DEF ParseConfig, CreateClient, BuildFails, MainFails
<1>2. CASE StartScheduler
  BY <1>2 DEF StartScheduler, Scheduled
<1>3. CASE MainReturns \/ ExitOne \/ ServerFails \/ ServerStops
  BY <1>3 DEF MainReturns, ExitOne, ServerFails, ServerStops
<1>4. ASSUME NEW c \in Checkers, Tick(c) \/ Expire(c) PROVE Loops'
  BY <1>4 DEF Tick, Expire
<1>5. ASSUME NEW c \in Checkers, StartRun(c) PROVE Loops'
  BY <1>5 DEF StartRun, TypeOK
<1>6. ASSUME NEW c \in Checkers, NEW o \in Outcomes, EndRun(c, o) PROVE Loops'
  BY <1>6 DEF EndRun, TypeOK
<1>7. ASSUME NEW c \in Checkers, StopLoop(c) PROVE Loops'
  BY <1>7 DEF StopLoop, TypeOK
<1>8. CASE StartReturns
  BY <1>8 DEF StartReturns, Scheduled, TypeOK
<1>9. CASE Signal
  BY <1>9 DEF Signal
<1>10. CASE UNCHANGED vars
  BY <1>10 DEF vars
<1> QED
  BY <1>1, <1>2, <1>3, <1>4, <1>5, <1>6, <1>7, <1>8, <1>9, <1>10
     DEF Next, MainStep, CheckerStep

\* The three together are inductive.
THEOREM Invariants == Spec => [](TypeOK /\ Causes /\ Loops)
<1>1. TypeOK /\ Causes /\ Loops /\ [Next]_vars => (TypeOK /\ Causes /\ Loops)'
  BY NextType, NextCauses, NextLoops
<1> QED
  BY <1>1, InitType, InitInv, PTL DEF Spec

-----------------------------------------------------------------------------

\* Every reachable state of the process, its goroutines and its counters is
\* well typed, and exactly the running loops have a run context.
THEOREM TypeCorrect == Spec => []TypeOK
BY Invariants, PTL

\* The process exits with 1 only after a failure of its own or a signal: not for
\* a checker's outcome, nor because nothing is scheduled.
THEOREM ExitHasCause == Spec => []ExitOneHasCause
<1>1. Causes => ExitOneHasCause
  BY DEF Causes, ExitOneHasCause
<1> QED
  BY <1>1, Invariants, PTL

\* The signal reaches every run, whether it is under way or a loop begins it later.
THEOREM SignalReaches == Spec => []SignalReachesRuns
<1>1. Init => SignalReachesRuns
  BY DEF Init, SignalReachesRuns
<1>2. TypeOK /\ SignalReachesRuns /\ [Next]_vars => SignalReachesRuns'
  <2> SUFFICES ASSUME TypeOK, SignalReachesRuns, [Next]_vars PROVE SignalReachesRuns'
    OBVIOUS
  <2> USE DEF SignalReachesRuns, loops
  <2>1. CASE MainStep \/ ExitOne \/ ServerFails \/ ServerStops \/ StartReturns \/ UNCHANGED vars
    <3>1. UNCHANGED <<ctxDone, runCtx>>
      BY <2>1 DEF MainStep, ParseConfig, CreateClient, BuildFails, MainFails, StartScheduler,
                  MainReturns, ExitOne, ServerFails, ServerStops, StartReturns, vars
    <3> QED
      BY <3>1
  <2>2. ASSUME NEW c \in Checkers, Tick(c) \/ StopLoop(c) PROVE SignalReachesRuns'
    BY <2>2 DEF Tick, StopLoop
  <2>3. ASSUME NEW c \in Checkers, StartRun(c) PROVE SignalReachesRuns'
    BY <2>3 DEF StartRun, TypeOK
  <2>4. ASSUME NEW c \in Checkers, Expire(c) PROVE SignalReachesRuns'
    BY <2>4 DEF Expire, TypeOK
  <2>5. ASSUME NEW c \in Checkers, NEW o \in Outcomes, EndRun(c, o) PROVE SignalReachesRuns'
    BY <2>5 DEF EndRun, TypeOK
  <2>6. CASE Signal
    BY <2>6 DEF Signal
  <2> QED
    BY <2>1, <2>2, <2>3, <2>4, <2>5, <2>6 DEF Next, CheckerStep
<1> QED
  BY <1>1, <1>2, Invariants, PTL DEF Spec

\* The scheduler returns only when no checker is running.
THEOREM StartWaits == Spec => []StartWaitsForRuns
<1>1. Loops => StartWaitsForRuns
  BY DEF Loops, StartWaitsForRuns
<1> QED
  BY <1>1, Invariants, PTL

=============================================================================
