--------------------------- MODULE Config_proofs ---------------------------
(***************************************************************************)
(* Theorems about Config: for every set of configurations and every width  *)
(* of durations, what is admitted does not make the process panic, and     *)
(* runs as configured.                                                     *)
(***************************************************************************)
EXTENDS Config, FiniteSetTheorems, TLAPS

\* The schedule is the places built so far, in order, without those skipped.
Built ==
    /\ cfg \in Configs
    /\ next \in 1..(Len(cfg) + 1)
    /\ schedule \in Seq(1..(next - 1)) /\ Len(schedule) < next
    /\ \A i, j \in DOMAIN schedule : i < j => schedule[i] < schedule[j]
    /\ skipped \subseteq 1..(next - 1)
    /\ \A n \in 1..(next - 1) :
        n \in skipped \/ \E i \in DOMAIN schedule : schedule[i] = n

\* Nothing gets past parsing that is not valid, and each loop has a place of
\* the finished schedule.
Started ==
    /\ stage \in {"parse", "build", "running", "failed"}
    /\ stage \in {"build", "running"} => Valid
    /\ stage # "running" => loops = <<>>
    /\ stage = "running" =>
        /\ next = Len(cfg) + 1
        /\ DOMAIN loops = DOMAIN schedule
        /\ \A i \in DOMAIN loops :
            /\ loops[i] \in [runs : DOMAIN cfg, at : {"new", "ticking", "ran"}]
            /\ loops[i].runs = schedule[i]

Inv == Built /\ Started

-----------------------------------------------------------------------------

\* A configuration is a sequence.
LEMMA ConfigIsSequence ==
    ASSUME NEW c \in Configs
    PROVE  Len(c) \in Nat /\ DOMAIN c = 1..Len(c)
<1>1. c \in Seq({c[n] : n \in DOMAIN c})
  BY ConfigsAssumption
<1> QED
  BY <1>1

LEMMA InitInv == Init => Inv
<1> SUFFICES ASSUME Init PROVE Inv
  OBVIOUS
<1> USE DEF Init
<1>1. Len(cfg) \in Nat
  BY ConfigIsSequence
<1>2. Built
  BY <1>1 DEF Built
<1>3. Started
  BY DEF Started
<1> QED
  BY <1>2, <1>3 DEF Inv

\* Appending the place `next` keeps the schedule in order.
LEMMA BuildKeepsBuilt ==
    ASSUME Built, Build PROVE Built'
<1> USE DEF Built, Build
<1>1. Len(cfg) \in Nat /\ next \in Nat \ {0}
  BY ConfigIsSequence
<1>2. schedule' \in Seq(1..(next' - 1)) /\ Len(schedule') = Len(schedule) + 1
  <2>1. schedule \in Seq(1..next) /\ next \in 1..next
    BY <1>1
  <2> QED
    BY <1>1, <2>1
<1>3. \A i \in DOMAIN schedule' :
        schedule'[i] = IF i = Len(schedule) + 1 THEN next ELSE schedule[i]
  BY <1>1, <1>2
<1>4. \A i, j \in DOMAIN schedule' : i < j => schedule'[i] < schedule'[j]
  BY <1>1, <1>2, <1>3
<1>5. \A n \in 1..(next' - 1) :
        n \in skipped' \/ \E i \in DOMAIN schedule' : schedule'[i] = n
  <2> SUFFICES ASSUME NEW n \in 1..(next' - 1), n \notin skipped'
               PROVE  \E i \in DOMAIN schedule' : schedule'[i] = n
    OBVIOUS
  <2>1. CASE n = next
    <3>1. Len(schedule) + 1 \in DOMAIN schedule'
      BY <1>2
    <3> QED
      BY <2>1, <3>1, <1>3
  <2>2. CASE n # next
    <3>1. PICK i \in DOMAIN schedule : schedule[i] = n
      BY <1>1, <2>2
    <3>2. i \in DOMAIN schedule' /\ i # Len(schedule) + 1
      BY <1>2
    <3> QED
      BY <1>3, <3>1, <3>2
  <2> QED
    BY <2>1, <2>2
<1>6. Len(schedule') < next'
  <2>1. Len(schedule) \in Nat /\ Len(schedule) < next /\ next' = next + 1
    BY <1>1
  <2>2. Len(schedule') = Len(schedule) + 1
    BY <1>2
  <2> HIDE DEF Built, Build
  <2> QED
    BY <1>1, <2>1, <2>2
<1>7. cfg' \in Configs /\ next' \in 1..(Len(cfg') + 1) /\ skipped' \subseteq 1..(next' - 1)
  BY <1>1
<1> QED
  BY <1>2, <1>4, <1>5, <1>6, <1>7, Zenon

LEMMA SkipKeepsBuilt ==
    ASSUME Built, Skip PROVE Built'
<1> USE DEF Built, Skip
<1>1. Len(cfg) \in Nat /\ next \in Nat \ {0}
  BY ConfigIsSequence
<1>2. schedule' \in Seq(1..(next' - 1))
  BY <1>1
<1> QED
  BY <1>1, <1>2

LEMMA NextInv == Inv /\ [Next]_vars => Inv'
<1> SUFFICES ASSUME Inv, [Next]_vars PROVE Inv'
  OBVIOUS
<1> USE DEF Inv
<1>0. Len(cfg) \in Nat /\ DOMAIN cfg = 1..Len(cfg) /\ next \in Nat
  BY ConfigIsSequence DEF Built
<1>1. CASE Parse
  BY <1>1 DEF Parse, Goto, Built, Started, Valid, NamesUnique
<1>2. CASE Build
  <2>1. Built'
    BY <1>2, BuildKeepsBuilt
  <2>2. next \in DOMAIN cfg /\ Valid
    BY <1>2, <1>0 DEF Build, Built, Started
  <2>3. ValidChecker(cfg[next])
    BY <2>2 DEF Valid
  <2>4. stage' = "build"
    BY <1>2, <2>3 DEF Build, Goto, BuilderPanics, ValidChecker, ValidDNS, ValidPodStartup
  <2>5. Started'
    BY <1>2, <2>4 DEF Build, Started, Valid, NamesUnique
  <2> QED
    BY <2>1, <2>5
<1>3. CASE Skip
  <2>1. Built'
    BY <1>3, SkipKeepsBuilt
  <2>2. Started'
    BY <1>3 DEF Skip, Started, Valid, NamesUnique
  <2> QED
    BY <2>1, <2>2
<1>4. CASE BuildFails
  BY <1>4 DEF BuildFails, Goto, Built, Started
<1>5. CASE Start
  <2>1. Built'
    BY <1>5 DEF Start, Built
  <2>2. next = Len(cfg) + 1
    BY <1>5, <1>0 DEF Start, Built
  <2>3. \A i \in DOMAIN schedule : schedule[i] \in DOMAIN cfg
    BY <1>0, <2>2 DEF Built
  <2>4. Started'
    BY <1>5, <2>2, <2>3 DEF Start, Goto, Started, Valid, NamesUnique
  <2> QED
    BY <2>1, <2>4
<1>6. ASSUME NEW i \in DOMAIN loops, NewTicker(i) PROVE Inv'
  <2>1. loops[i].runs \in DOMAIN cfg /\ Valid
    BY <1>6 DEF NewTicker, Started
  <2>2. cfg[loops[i].runs].interval > 0
    BY <2>1 DEF Valid, ValidChecker
  <2>3. stage' = "running"
    BY <1>6, <2>2 DEF NewTicker, Goto
  <2>4. Started'
    BY <1>6, <2>3 DEF NewTicker, Started, Valid, NamesUnique
  <2> QED
    BY <1>6, <2>4 DEF NewTicker, Built
<1>7. ASSUME NEW i \in DOMAIN loops, FirstRun(i) PROVE Inv'
  <2>1. loops[i].runs \in DOMAIN cfg /\ Valid
    BY <1>7 DEF FirstRun, Started
  <2>2. ValidChecker(cfg[loops[i].runs])
    BY <2>1 DEF Valid
  <2>3. stage' = "running"
    BY <1>7, <2>2 DEF FirstRun, Goto, ValidChecker, ValidAPIServer
  <2>4. Started'
    BY <1>7, <2>3 DEF FirstRun, Started, Valid, NamesUnique
  <2> QED
    BY <1>7, <2>4 DEF FirstRun, Built
<1>8. CASE UNCHANGED vars
  BY <1>8 DEF vars, Built, Started, Valid, NamesUnique
<1> QED
  BY <1>1, <1>2, <1>3, <1>4, <1>5, <1>6, <1>7, <1>8 DEF Next, Finished

LEMMA InvHolds == Spec => []Inv
  BY InitInv, NextInv, PTL DEF Spec

-----------------------------------------------------------------------------

\* TypeOK: the builder's loop and the schedulers' closures stay within the
\* configuration.
THEOREM TypeCorrect == Spec => []TypeOK
<1>1. Inv => TypeOK
  <2> SUFFICES ASSUME Inv PROVE TypeOK
    OBVIOUS
  <2>1. Len(cfg) \in Nat /\ DOMAIN cfg = 1..Len(cfg) /\ next \in 1..(Len(cfg) + 1)
    BY ConfigIsSequence DEF Inv, Built
  <2>2. 1..(next - 1) \subseteq DOMAIN cfg
    BY <2>1
  <2>3. \A i \in DOMAIN schedule : schedule[i] \in DOMAIN cfg
    BY <2>2 DEF Inv, Built
  <2> QED
    BY <2>1, <2>2, <2>3 DEF Inv, Built, Started, TypeOK
<1> QED
  BY <1>1, InvHolds, PTL

\* NoPanic: of a configuration that validation admits, no builder dereferences
\* a missing section, no ticker gets a bad interval, no first run panics.
THEOREM NeverPanics == Spec => []NoPanic
<1>1. Inv => NoPanic
  BY DEF Inv, Started, NoPanic
<1> QED
  BY <1>1, InvHolds, PTL

\* Two loops run two places of the configuration.
LEMMA LoopsDistinct ==
    ASSUME Inv, NEW i \in DOMAIN loops, NEW j \in DOMAIN loops, i # j
    PROVE  /\ stage = "running"
           /\ loops[i].runs \in DOMAIN cfg /\ loops[j].runs \in DOMAIN cfg
           /\ loops[i].runs # loops[j].runs
<1>1. stage = "running"
  BY DEF Inv, Started
<1>2. i \in DOMAIN schedule /\ j \in DOMAIN schedule /\ i \in Nat /\ j \in Nat
  BY <1>1 DEF Inv, Started, Built
<1>3. schedule[i] # schedule[j]
  <2>1. schedule[i] \in Nat /\ schedule[j] \in Nat
    BY <1>2, ConfigIsSequence DEF Inv, Built
  <2>2. /\ i < j => schedule[i] < schedule[j]
        /\ j < i => schedule[j] < schedule[i]
    BY <1>2 DEF Inv, Built
  <2> QED
    BY <1>2, <2>1, <2>2
<1> QED
  BY <1>1, <1>2, <1>3 DEF Inv, Started

\* EachRunsItsOwn: buildCheckerSchedule and Scheduler.Start give every admitted
\* checker that is not skipped exactly one loop, and none after an error.
THEOREM EachRuns == Spec => []EachRunsItsOwn
<1>1. Inv => EachRunsItsOwn
  <2> SUFFICES ASSUME Inv, stage = "running", NEW n \in DOMAIN cfg \ skipped
               PROVE  Cardinality({i \in DOMAIN loops : loops[i].runs = n}) = 1
    BY DEF EachRunsItsOwn, Inv, Started
  <2>1. n \in 1..(next - 1)
    BY ConfigIsSequence DEF Inv, Built, Started
  <2>2. PICK i \in DOMAIN loops : loops[i].runs = n
    BY <2>1 DEF Inv, Built, Started
  <2>3. {j \in DOMAIN loops : loops[j].runs = n} = {i}
    BY <2>2, LoopsDistinct
  <2> QED
    BY <2>3, FS_Singleton
<1> QED
  BY <1>1, InvHolds, PTL

\* A sum that fits in a duration does not wrap.
LEMMA WrapFits ==
    ASSUME NEW n \in 0..MaxDuration PROVE Wrap(n) = n
<1>1. \A a, b \in Nat : a < b => a % b = a
  OBVIOUS
<1>2. (n + MaxDuration + 1) % (2 * MaxDuration + 2) = n + MaxDuration + 1
  BY <1>1, DurationAssumption
<1> QED
  BY <1>2, DurationAssumption DEF Wrap

\* Durations are integers.
LEMMA DurationsAreInt ==
    ASSUME NEW f \in Configs, NEW n \in DOMAIN f
    PROVE  /\ f[n].timeout \in Int
           /\ f[n].own # NoConfig =>
                /\ f[n].type = "DNS" => f[n].own.queryTimeout \in Int
                /\ f[n].type = "PodStartup" =>
                    f[n].own.startupTimeout \in Int /\ f[n].own.tcpTimeout \in Int
<1>1. Durations \subseteq Int
  BY DurationAssumption DEF Durations
<1>2. /\ f[n].timeout \in Durations
      /\ f[n].own # NoConfig =>
            /\ f[n].type = "DNS" => f[n].own.queryTimeout \in Durations
            /\ f[n].type = "PodStartup" =>
                {f[n].own.startupTimeout, f[n].own.tcpTimeout} \subseteq Durations
  BY ConfigsAssumption
<1> QED
  BY <1>1, <1>2

\* BudgetsFit: what validate compares is what a run waits for, except where the
\* sum of two durations is none.
THEOREM Budgets == Spec => []BudgetsFit
<1>1. Inv => BudgetsFit
  <2> SUFFICES ASSUME Inv, NEW i \in DOMAIN loops
               PROVE  LET c == cfg[loops[i].runs] IN
                      /\ c.timeout > 0
                      /\ c.type = "DNS" => c.own.queryTimeout \in 1..(c.timeout - 1)
                      /\ c.type = "APIServer" => /\ c.own.mutateTimeout < c.timeout
                                                 /\ c.own.readTimeout < c.timeout
                      /\ c.type = "PodStartup" =>
                          LET sum == c.own.startupTimeout + c.own.tcpTimeout
                          IN  sum < c.timeout \/ sum > MaxDuration
    BY DEF BudgetsFit, Running
  <2> DEFINE n == loops[i].runs
             c == cfg[n]
  <2>1. n \in DOMAIN cfg /\ Valid
    BY DEF Inv, Started
  <2>2. ValidChecker(c)
    BY <2>1 DEF Valid
  <2>3. c.timeout \in Int /\ c.timeout > 0
    BY <2>1, <2>2, DurationsAreInt DEF Inv, Built, ValidChecker
  <2> HIDE DEF c
  <2>4. ASSUME c.type = "DNS" PROVE c.own.queryTimeout \in 1..(c.timeout - 1)
    <3>1. ValidDNS(c.own, c.timeout)
      BY <2>2, <2>4 DEF ValidChecker
    <3>2. c.own.queryTimeout \in Int
      BY <2>1, <2>4, <3>1, DurationsAreInt DEF c, Inv, Built, ValidDNS
    <3>3. c.own.queryTimeout > 0 /\ c.timeout > c.own.queryTimeout
      BY <3>1 DEF ValidDNS
    <3> QED
      BY <2>3, <3>2, <3>3
  <2>5. ASSUME c.type = "APIServer"
        PROVE  c.own.mutateTimeout < c.timeout /\ c.own.readTimeout < c.timeout
    BY <2>2, <2>5 DEF ValidChecker, ValidAPIServer
  <2>6. ASSUME c.type = "PodStartup"
        PROVE  \/ c.own.startupTimeout + c.own.tcpTimeout < c.timeout
               \/ c.own.startupTimeout + c.own.tcpTimeout > MaxDuration
    <3>1. ValidPodStartup(c.own, c.timeout)
      BY <2>2, <2>6 DEF ValidChecker
    <3>2. c.own.startupTimeout \in Nat /\ c.own.tcpTimeout \in Nat
      BY <2>1, <2>6, <3>1, DurationsAreInt DEF c, Inv, Built, ValidPodStartup
    <3> DEFINE sum == c.own.startupTimeout + c.own.tcpTimeout
    <3>3. CASE sum > MaxDuration
      BY <3>3
    <3>4. CASE sum \in 0..MaxDuration
      <4>1. Wrap(sum) = sum
        BY <3>4, WrapFits
      <4> QED
        BY <2>3, <3>1, <3>2, <4>1 DEF ValidPodStartup
    <3> QED
      BY <3>2, <3>3, <3>4, DurationAssumption
  <2> QED
    BY <2>3, <2>4, <2>5, <2>6 DEF c
<1> QED
  BY <1>1, InvHolds, PTL

\* SelectorsDistinct: the unique names that validate asks for keep the running
\* checkers' label selectors apart.
THEOREM SelectorsApart == Spec => []SelectorsDistinct
<1>1. Inv => SelectorsDistinct
  <2> SUFFICES ASSUME Inv, NEW i \in DOMAIN loops, NEW j \in DOMAIN loops, i # j
               PROVE  cfg[loops[i].runs].name # cfg[loops[j].runs].name
    BY DEF SelectorsDistinct
  <2>1. NamesUnique
    BY LoopsDistinct DEF Inv, Started, Valid
  <2> QED
    BY <2>1, LoopsDistinct DEF NamesUnique
<1> QED
  BY <1>1, InvHolds, PTL

=============================================================================
