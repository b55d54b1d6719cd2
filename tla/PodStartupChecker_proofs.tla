---------------------- MODULE PodStartupChecker_proofs ----------------------
(***************************************************************************)
(* Theorems about PodStartupChecker: for any number of instances, however  *)
(* they share names, any lists of CSI types, any limit and any number of   *)
(* creates in flight, with crashes and without, garbage collection takes   *)
(* nothing from a run in time, a run that went well leaves nothing behind, *)
(* what the API server stores of a name's objects is bounded, the Pods,    *)
(* claims and StorageClasses of each name are ObjectPools, and every run   *)
(* comes closer to its end with each step of its own.                      *)
(***************************************************************************)
EXTENDS PodStartupChecker, SetLemmas, FiniteSetTheorems, TLAPS

-----------------------------------------------------------------------------
(* The plan. The prover knows of a recursive function only that it is a    *)
(* CHOOSE, so that one satisfies the equation is proved here, from a least *)
(* length for which none does.                                             *)

\* f is what PlanOf builds for the first m types of csis.
Builds(csis, m, f) ==
    f = [n \in 0..m |-> IF n = 0 THEN <<>> ELSE f[n - 1] \o CsiObjects(csis[n])]

\* For any length there is a function that satisfies the equation.
LEMMA PlanExists ==
    ASSUME NEW csis, NEW m \in Nat
    PROVE  \E f : Builds(csis, m, f)
<1> DEFINE Bad == {n \in Nat : ~\E f : Builds(csis, n, f)}
<1>1. SUFFICES ASSUME Bad # {} PROVE FALSE
  OBVIOUS
<1>2. PICK n \in Bad : \A x \in Bad : n <= x
  BY <1>1, LeastNat
<1>3. n # 0
  <2> DEFINE f == [x \in 0..0 |-> <<>>]
  <2>1. Builds(csis, 0, f)
    BY DEF Builds
  <2> QED
    BY <2>1
<1>4. PICK f : Builds(csis, n - 1, f)
  BY <1>2, <1>3
<1> DEFINE g == [x \in 0..n |-> IF x = n THEN f[n - 1] \o CsiObjects(csis[n]) ELSE f[x]]
<1>5. Builds(csis, n, g)
  <2>1. \A x \in 0..(n - 1) : f[x] = IF x = 0 THEN <<>> ELSE f[x - 1] \o CsiObjects(csis[x])
    BY <1>4, Zenon DEF Builds
  <2>2. \A x \in 0..n : g[x] = IF x = 0 THEN <<>> ELSE g[x - 1] \o CsiObjects(csis[x])
    BY <2>1, <1>3
  <2> QED
    BY <2>2 DEF Builds
<1> QED
  BY <1>2, <1>5

\* So PlanOf is what it says.
LEMMA PlanBuilt ==
    ASSUME NEW csis \in Seq(CSITypes)
    PROVE  \E f : Builds(csis, Len(csis), f) /\ PlanOf(csis) = f[Len(csis)]
<1> DEFINE f == CHOOSE f : Builds(csis, Len(csis), f)
<1>1. Builds(csis, Len(csis), f)
  BY PlanExists
<1>2. PlanOf(csis) = f[Len(csis)]
  BY DEF PlanOf, Builds
<1> QED
  BY <1>1, <1>2

\* What a plan consists of: the types' claims, and a StorageClass if one of them
\* needs it.
Parts(csis) ==
    {csis[n] : n \in DOMAIN csis}
        \cup {x \in {"sc"} : "azureFile" \in {csis[n] : n \in DOMAIN csis}}

\* A plan consists of nothing else.
LEMMA PlanParts ==
    ASSUME NEW csis \in Seq(CSITypes)
    PROVE  PlanOf(csis) \in Seq(Parts(csis))
<1>1. PICK f : Builds(csis, Len(csis), f) /\ PlanOf(csis) = f[Len(csis)]
  BY PlanBuilt
<1>2. \A n \in 0..Len(csis) : f[n] = IF n = 0 THEN <<>> ELSE f[n - 1] \o CsiObjects(csis[n])
  BY <1>1, Zenon DEF Builds
<1> DEFINE Bad == {n \in 0..Len(csis) : f[n] \notin Seq(Parts(csis))}
<1>3. SUFFICES ASSUME Bad # {} PROVE FALSE
  BY <1>1
<1>4. PICK n \in Bad : \A m \in Bad : n <= m
  <2>1. Bad \subseteq Nat
    OBVIOUS
  <2> HIDE DEF Bad
  <2> QED
    BY <1>3, <2>1, LeastNat
<1>5. n # 0
  <2>1. <<>> \in Seq(Parts(csis))
    OBVIOUS
  <2> QED
    BY <1>2, <2>1
<1>6. f[n - 1] \in Seq(Parts(csis))
  BY <1>4, <1>5
<1>7. CsiObjects(csis[n]) \in Seq(Parts(csis))
  <2>1. n \in DOMAIN csis
    BY <1>5
  <2>2. csis[n] \in Parts(csis)
    BY <2>1 DEF Parts
  <2>3. csis[n] = "azureFile" => "sc" \in Parts(csis)
    BY <2>1, Zenon DEF Parts
  <2> QED
    BY <2>2, <2>3 DEF CsiObjects
<1> QED
  <2>1. f[n - 1] \o CsiObjects(csis[n]) \in Seq(Parts(csis))
    BY <1>6, <1>7
  <2> QED
    BY <1>2, <1>5, <2>1

\* The kinds of object, one by one.
LEMMA KindsAre ==
    ASSUME NEW x
    PROVE  x \in Kinds <=> \/ x = "pod"
                           \/ x = "pool" /\ EnableNodeProvisioningTest
                           \/ \E csis \in CSIConfigs : \E n \in DOMAIN Plans[csis] : x = Plans[csis][n]
<1> DEFINE P(csis) == {Plans[csis][n] : n \in DOMAIN Plans[csis]}
           N == IF EnableNodeProvisioningTest THEN {"pool"} ELSE {}
           U == UNION {P(csis) : csis \in CSIConfigs}
<1>1. x \in U <=> \E csis \in CSIConfigs : x \in P(csis)
  BY Zenon
<1>2. \A csis : x \in P(csis) <=> \E n \in DOMAIN Plans[csis] : x = Plans[csis][n]
  BY Zenon
<1>3. x \in N <=> x = "pool" /\ EnableNodeProvisioningTest
  OBVIOUS
<1>4. Kinds = {"pod"} \cup N \cup U
  BY DEF Kinds
<1>5. x \in Kinds <=> x = "pod" \/ x \in U \/ x \in N
  <2> HIDE DEF U, N
  <2> QED
    BY <1>4
<1> HIDE DEF U, N, P
<1> QED
  BY <1>1, <1>2, <1>3, <1>5, Zenon

\* What a step can rely on about the plan.
LEMMA PlanFacts ==
    ASSUME enabledCSIs \in CSIConfigs
    PROVE  /\ enabledCSIs \in Seq(CSITypes)
           /\ CsiPlan \in Seq(Parts(enabledCSIs))
           /\ Len(CsiPlan) \in Nat
           /\ \A n \in 1..Len(CsiPlan) : /\ CsiPlan[n] \in Kinds
                                         /\ CsiPlan[n] \in PVCKinds \cup {"sc"}
<1>1. enabledCSIs \in Seq(CSITypes) /\ CsiPlan = PlanOf(enabledCSIs)
  BY ConfigAssumption DEF CsiPlan, Plans
<1>2. CsiPlan \in Seq(Parts(enabledCSIs))
  BY <1>1, PlanParts
<1>3. Len(CsiPlan) \in Nat /\ DOMAIN CsiPlan = 1..Len(CsiPlan)
  BY <1>2
<1>4. ASSUME NEW n \in 1..Len(CsiPlan)
      PROVE  CsiPlan[n] \in Kinds /\ CsiPlan[n] \in PVCKinds \cup {"sc"}
  <2>1. CsiPlan[n] \in Parts(enabledCSIs)
    BY <1>2
  <2>2. CsiPlan[n] \in PVCKinds \cup {"sc"}
    BY <1>1, <2>1 DEF Parts, PVCKinds
  <2>3. \E m \in DOMAIN Plans[enabledCSIs] : CsiPlan[n] = Plans[enabledCSIs][m]
    BY <1>3 DEF CsiPlan
  <2> QED
    BY <2>2, <2>3, KindsAre
<1> QED
  BY <1>1, <1>2, <1>3, <1>4

-----------------------------------------------------------------------------
(* Types and control.                                                      *)

\* The part of TypeOK that is about the cluster.
ClusterType ==
    /\ objs \subseteq Objects
    /\ leaving \subseteq objs
    /\ old \subseteq objs \ leaving
    /\ late \subseteq Objects /\ Cardinality(late) <= MaxLate

Collecting == {"idle", "gcList", "gcDelete"}

\* Where a run stands tells whether it has a timestamp, which no other run has
\* and whose objects carry its label; whether it tests NodePools; and that it
\* begins with the first of the CSI resources. StorageClasses never linger.
Control ==
    /\ \A o \in leaving : o.kind # "sc"
    /\ \A i \in Instances :
        /\ pc[i] \in Collecting => stamp[i] = NoStamp
        /\ pc[i] \notin Collecting \cup {"record"} => stamp[i] \in Stamps
        /\ stamp[i] \in Stamps => owner[stamp[i]] = Label[i]
        /\ pc[i] \in Collecting \cup {"csiLimit", "scLimit", "podDelete", "poolDelete"}
            => k[i] = 1
        /\ pc[i] \in {"crd", "poolCreate", "poolDelete"} => EnableNodeProvisioningTest
    /\ \A i, j \in Instances : stamp[i] = stamp[j] => i = j \/ stamp[i] = NoStamp

\* The kinds of a run's own objects are among the configurations'.
LEMMA OwnObjects ==
    ASSUME TypeOK, Control, NEW i \in Instances,
           pc[i] \notin Collecting \cup {"record"}
    PROVE  /\ Own(i, "pod") \in Objects
           /\ EnableNodeProvisioningTest => Own(i, "pool") \in Objects
           /\ \A n \in 1..Len(CsiPlan) : Own(i, CsiPlan[n]) \in Objects
<1>1. stamp[i] \in Stamps
  BY DEF Control
<1>2. "pod" \in Kinds /\ (EnableNodeProvisioningTest => "pool" \in Kinds)
  BY KindsAre
<1>3. \A n \in 1..Len(CsiPlan) : CsiPlan[n] \in Kinds
  BY PlanFacts DEF TypeOK
<1> QED
  BY <1>1, <1>2, <1>3 DEF Own, Objects

\* A create or a delete, served or not, keeps the cluster's types.
LEMMA RemoveTypes ==
    ASSUME TypeOK, Control, NEW o \in Objects, Remove(o)
    PROVE  ClusterType' /\ owner' = owner /\ \A x \in leaving' : x.kind # "sc"
BY DEF TypeOK, Control, Remove, ClusterType

\* A delete that answers an error.
LEMMA LoseDeleteTypes ==
    ASSUME TypeOK, Control, NEW i, NEW o \in Objects, LoseDelete(i, o)
    PROVE  ClusterType' /\ owner' = owner /\ \A x \in leaving' : x.kind # "sc"
BY RemoveTypes DEF TypeOK, Control, LoseDelete, ClusterType, cluster

\* Objects are finitely many, whatever the CSI types configured.
LEMMA ObjectsFinite == IsFiniteSet(Objects)
<1> DEFINE K == {"pod", "pool", "sc", "azureFile", "azureDisk", "azureBlob"}
           f == [p \in K \X Stamps |-> [kind |-> p[1], stamp |-> p[2]]]
           R == {f[p] : p \in K \X Stamps}
<1>1. IsFiniteSet(K \X Stamps)
  <2>1. IsFiniteSet(K)
    <3>1. IsFiniteSet({"pod"}) /\ IsFiniteSet({"pod"} \cup {"pool"})
      BY FS_Singleton, FS_AddElement
    <3>2. /\ IsFiniteSet({"pod"} \cup {"pool"} \cup {"sc"})
          /\ IsFiniteSet({"pod"} \cup {"pool"} \cup {"sc"} \cup {"azureFile"})
      BY <3>1, FS_AddElement
    <3>3. IsFiniteSet({"pod"} \cup {"pool"} \cup {"sc"} \cup {"azureFile"} \cup {"azureDisk"})
      BY <3>2, FS_AddElement
    <3>4. IsFiniteSet({"pod"} \cup {"pool"} \cup {"sc"} \cup {"azureFile"} \cup {"azureDisk"}
                        \cup {"azureBlob"})
      BY <3>3, FS_AddElement
    <3>5. K = {"pod"} \cup {"pool"} \cup {"sc"} \cup {"azureFile"} \cup {"azureDisk"}
                \cup {"azureBlob"}
      OBVIOUS
    <3> QED
      BY <3>4, <3>5
  <2> HIDE DEF K
  <2> QED
    BY <2>1, StampsAssumption, FS_Product
<1>2. IsFiniteSet(R)
  <2>1. f \in Surjection(K \X Stamps, R)
    BY DEF Surjection
  <2> HIDE DEF f, R
  <2> QED
    BY <1>1, <2>1, FS_Surjection
<1>3. ASSUME NEW x \in Kinds PROVE x \in K
  <2>1. CASE \E csis \in CSIConfigs : \E n \in DOMAIN Plans[csis] : x = Plans[csis][n]
    <3>1. PICK csis \in CSIConfigs : \E n \in DOMAIN Plans[csis] : x = Plans[csis][n]
      BY <2>1
    <3>2. csis \in Seq(CSITypes) /\ Plans[csis] \in Seq(Parts(csis))
      BY ConfigAssumption, PlanParts DEF Plans
    <3>3. x \in Parts(csis)
      BY <3>1, <3>2
    <3>4. x = "sc" \/ \E n \in DOMAIN csis : x = csis[n]
      BY <3>3 DEF Parts
    <3>5. \A n \in DOMAIN csis : csis[n] \in CSITypes
      BY <3>2
    <3> QED
      BY <3>4, <3>5 DEF CSITypes
  <2>2. CASE x \in {"pod", "pool"}
    BY <2>2
  <2> QED
    BY <2>1, <2>2, KindsAre
<1>4. ASSUME NEW o \in Objects PROVE o \in R
  <2>1. PICK x \in Kinds, t \in Stamps : o = [kind |-> x, stamp |-> t]
    BY DEF Objects
  <2>2. <<x, t>> \in K \X Stamps /\ f[<<x, t>>] = o
    BY <1>3, <2>1
  <2> QED
    BY <2>2
<1> QED
  BY <1>2, <1>4, FS_Subset

\* A create that does keeps within the bound of creates in flight.
LEMMA LoseCreateTypes ==
    ASSUME TypeOK, Control, NEW i, NEW o \in Objects, LoseCreate(i, o)
    PROVE  ClusterType' /\ owner' = owner /\ leaving' = leaving
<1>1. IsFiniteSet(late)
  BY ObjectsFinite, FS_Subset DEF TypeOK
<1>2. /\ Cardinality(late) \in Nat
      /\ Cardinality(late \cup {o}) \in {Cardinality(late), Cardinality(late) + 1}
  BY <1>1, FS_CardinalityType, FS_AddElement
<1> QED
  <2>1. late' \subseteq Objects /\ Cardinality(late') <= MaxLate
    <3>1. CASE late' = late
      BY <3>1 DEF TypeOK
    <3>2. CASE Cardinality(late) < MaxLate /\ late' = late \cup {o}
      BY <1>2, <3>2, EnvironmentAssumption DEF TypeOK
    <3> QED
      BY <3>1, <3>2 DEF LoseCreate
  <2> QED
    BY <2>1 DEF TypeOK, LoseCreate, ClusterType

\* garbageCollect's next stage, and the run's timestamp after the last.
LEMMA NextStageTypes ==
    ASSUME TypeOK, Control, NEW i \in Instances, NextStage(i), UNCHANGED k
    PROVE  /\ stage' \in [Instances -> 1..Len(GcStages)]
           /\ pc' \in [Instances -> PCs]
           /\ stamp' \in [Instances -> Stamps \cup {NoStamp}]
           /\ owner' \in [Stamps -> {Label[j] : j \in Instances}]
<1>1. CASE stage[i] < Len(GcStages)
  <2>1. Len(GcStages) \in Nat
    BY DEF GcStages
  <2>2. stage[i] + 1 \in 1..Len(GcStages)
    BY <1>1, <2>1 DEF TypeOK
  <2>3. /\ stage' = [stage EXCEPT ![i] = stage[i] + 1]
        /\ pc' = [pc EXCEPT ![i] = "gcList"]
        /\ UNCHANGED <<owner, stamp>>
    BY <1>1 DEF NextStage, Goto
  <2> QED
    BY <2>2, <2>3 DEF TypeOK, PCs
<1>2. CASE ~(stage[i] < Len(GcStages)) /\ pc' = [pc EXCEPT ![i] = "record"]
  BY <1>2 DEF TypeOK, NextStage, Goto, PCs
<1>3. ASSUME ~(stage[i] < Len(GcStages)), NEW t \in Stamps,
             pc' = [pc EXCEPT ![i] = "csiLimit"],
             stamp' = [stamp EXCEPT ![i] = t],
             owner' = [owner EXCEPT ![t] = Label[i]]
      PROVE  /\ pc' \in [Instances -> PCs]
             /\ stamp' \in [Instances -> Stamps \cup {NoStamp}]
             /\ owner' \in [Stamps -> {Label[j] : j \in Instances}]
  BY <1>3 DEF TypeOK, PCs
<1> QED
  <2>1. CASE stage[i] < Len(GcStages)
    BY <1>1, <2>1
  <2>2. CASE ~(stage[i] < Len(GcStages))
    BY <1>2, <1>3, <2>2 DEF TypeOK, NextStage, Goto
  <2> QED
    BY <2>1, <2>2

\* A run goes to a step, or returns a result, as it must.
LEMMA GotoTypes ==
    ASSUME TypeOK, NEW i \in Instances, NEW step \in PCs, Goto(i, step)
    PROVE  pc' \in [Instances -> PCs]
BY DEF TypeOK, Goto

\* The run returns by way of a deferred call.
LEMMA ReturnTypes ==
    ASSUME TypeOK, NEW i \in Instances, NEW step \in PCs, NEW r \in Results,
           ReturnVia(i, step, r)
    PROVE  /\ pc' \in [Instances -> PCs]
           /\ k' \in [Instances -> 1..(Len(CsiPlan) + 1)]
           /\ result' \in [Instances -> Results]
<1>1. Len(CsiPlan) \in Nat
  BY PlanFacts DEF TypeOK
<1> QED
  BY <1>1 DEF TypeOK, ReturnVia, Goto, Return

\* A limit check, whatever it finds.
LEMMA LimitTypes ==
    ASSUME TypeOK, NEW i \in Instances, enabledCSIs' = enabledCSIs,
           NEW n, NEW max, NEW ok \in PCs, NEW full \in PCs,
           LimitListFails(i, full) \/ LimitListOk(i, n, max, ok, full)
    PROVE  TypeOK'
<1>1. CsiPlan' = CsiPlan
  BY DEF CsiPlan
<1>2. failed' \in [Instances -> BOOLEAN] /\ UNCHANGED <<cluster, time, stamp, gc>>
  BY DEF LimitListFails, LimitListOk, Fail, TypeOK
<1>3. \/ ReturnVia(i, full, "Unknown")
      \/ Goto(i, ok) /\ UNCHANGED <<k, result>>
  BY DEF LimitListFails, LimitListOk
<1>4. /\ pc' \in [Instances -> PCs]
      /\ k' \in [Instances -> 1..(Len(CsiPlan) + 1)]
      /\ result' \in [Instances -> Results]
  BY <1>3, GotoTypes, ReturnTypes DEF TypeOK, Results
<1> QED
  BY <1>1, <1>2, <1>4 DEF cluster, gc, TypeOK

\* A step keeps the types.
LEMMA NextType == TypeOK /\ Control /\ [Next]_vars => TypeOK'
<1> SUFFICES ASSUME TypeOK, Control, [Next]_vars PROVE TypeOK'
  OBVIOUS
<1>0. CsiPlan' = CsiPlan /\ Len(CsiPlan) \in Nat /\ enabledCSIs' = enabledCSIs
  BY PlanFacts DEF TypeOK, Next, vars, CsiPlan
<1>1. Len(GcStages) \in Nat \ {0}
  BY DEF GcStages
<1>2. ASSUME UNCHANGED cluster PROVE ClusterType' /\ owner' = owner
  BY <1>2 DEF cluster, TypeOK, ClusterType
<1>3. SUFFICES ASSUME ~UNCHANGED vars PROVE TypeOK'
  BY <1>0 DEF TypeOK, vars, state
<1> USE DEF Goto, Fail, Return, gc
<1>4. ASSUME NEW i \in Instances, StartRun(i) PROVE TypeOK'
  BY <1>0, <1>1, <1>2, <1>4 DEF StartRun, TypeOK, ClusterType, PCs
<1>5. ASSUME NEW i \in Instances, GcList(i) PROVE TypeOK'
  <2>1. todo' \in [Instances -> SUBSET Objects]
    BY <1>5 DEF GcList, Labelled, TypeOK
  <2> QED
    BY <1>0, <1>1, <1>2, <1>5, <2>1 DEF GcList, TypeOK, ClusterType, PCs
<1>6. ASSUME NEW i \in Instances, GcListFails(i) PROVE TypeOK'
  BY <1>0, <1>6, NextStageTypes DEF GcListFails, TypeOK
<1>7. ASSUME NEW i \in Instances, NEW o \in Objects, GcDelete(i, o) PROVE TypeOK'
  <2>1. ClusterType' /\ owner' = owner
    BY <1>2, <1>7, RemoveTypes, LoseDeleteTypes DEF GcDelete, cluster
  <2>2. failed' \in [Instances -> BOOLEAN]
    BY <1>7 DEF GcDelete, TypeOK
  <2>3. todo' \in [Instances -> SUBSET Objects]
    BY <1>7 DEF GcDelete, TypeOK
  <2> QED
    BY <1>0, <1>7, <2>1, <2>2, <2>3 DEF GcDelete, TypeOK, ClusterType
<1>8. ASSUME NEW i \in Instances, GcDone(i) PROVE TypeOK'
  BY <1>0, <1>8, NextStageTypes DEF GcDone, TypeOK
<1>9. ASSUME NEW i \in Instances, CheckCSILimit(i) PROVE TypeOK'
  <2>1. CASE enabledCSIs = <<>>
    BY <1>0, <1>2, <1>9, <2>1 DEF CheckCSILimit, TypeOK, ClusterType, PCs
  <2>2. CASE enabledCSIs # <<>>
    BY <1>0, <1>9, <2>2, LimitTypes DEF CheckCSILimit, PCs
  <2> QED
    BY <2>1, <2>2
<1>10. ASSUME NEW i \in Instances, CheckSCLimit(i) \/ CheckPodLimit(i) PROVE TypeOK'
  BY <1>0, <1>10, LimitTypes DEF CheckSCLimit, CheckPodLimit, PCs
<1>11. ASSUME NEW i \in Instances, CreateCSI(i) PROVE TypeOK'
  <2>1. Own(i, CsiPlan[k[i]]) \in Objects
    <3>1. pc[i] \notin Collecting \cup {"record"} /\ k[i] \in 1..Len(CsiPlan)
      BY <1>0, <1>11 DEF CreateCSI, Collecting, TypeOK
    <3> QED
      BY <3>1, OwnObjects
  <2>2. ClusterType' /\ owner' = owner
    BY <1>11, <2>1, LoseCreateTypes DEF CreateCSI, ClusterType, TypeOK
  <2>3. /\ pc' \in [Instances -> PCs]
        /\ k' \in [Instances -> 1..(Len(CsiPlan) + 1)]
        /\ result' \in [Instances -> Results]
        /\ failed' \in [Instances -> BOOLEAN]
    <3>1. CASE ReturnVia(i, "record", "Unknown") /\ Fail(i)
      BY <3>1, ReturnTypes DEF TypeOK, PCs, Results
    <3>2. CASE k' = [k EXCEPT ![i] = @ + 1] /\ UNCHANGED <<pc, result, failed>>
      BY <1>0, <1>11, <3>2 DEF CreateCSI, TypeOK
    <3> QED
      BY <1>11, <3>1, <3>2, Zenon DEF CreateCSI
  <2> QED
    BY <1>0, <1>11, <2>2, <2>3 DEF CreateCSI, TypeOK, ClusterType
<1>12. ASSUME NEW i \in Instances,
              \/ CreatedCSI(i) \/ CheckCRD(i) \/ PollRunning(i) \/ PollExpires(i)
              \/ Measure(i) \/ Connect(i) \/ DeletedCSI(i)
       PROVE  TypeOK'
  <2>1. /\ failed' \in [Instances -> BOOLEAN]
        /\ UNCHANGED <<cluster, time, stamp, gc>>
    BY <1>12 DEF CreatedCSI, CheckCRD, PollRunning, PollExpires, Measure, Connect, DeletedCSI,
                 TypeOK
  <2>2. \/ \E step \in PCs : Goto(i, step) /\ UNCHANGED <<k, result>>
        \/ \E step \in PCs, r \in Results : ReturnVia(i, step, r)
    BY <1>12 DEF CreatedCSI, CheckCRD, PollRunning, PollExpires, Measure, Connect, DeletedCSI,
                 PCs, Results
  <2>3. /\ pc' \in [Instances -> PCs]
        /\ k' \in [Instances -> 1..(Len(CsiPlan) + 1)]
        /\ result' \in [Instances -> Results]
    BY <2>2, GotoTypes, ReturnTypes DEF TypeOK
  <2> QED
    BY <1>0, <1>2, <2>1, <2>3 DEF TypeOK, ClusterType
<1>13. ASSUME NEW i \in Instances, CreateNodePool(i) \/ CreatePod(i) PROVE TypeOK'
  <2>1. PICK kind \in {"pool", "pod"}, next \in PCs, r \in Results :
            Create(i, kind, next, r) /\ Own(i, kind) \in Objects
    <3>1. CASE CreateNodePool(i)
      <4>1. Own(i, "pool") \in Objects
        BY <3>1, OwnObjects DEF CreateNodePool, Collecting, Control
      <4> QED
        BY <3>1, <4>1 DEF CreateNodePool, PCs, Results
    <3>2. CASE CreatePod(i)
      <4>1. Own(i, "pod") \in Objects
        BY <3>2, OwnObjects DEF CreatePod, Collecting
      <4> QED
        BY <3>2, <4>1 DEF CreatePod, PCs, Results
    <3> QED
      BY <1>13, <3>1, <3>2
  <2>2. ClusterType' /\ owner' = owner
    BY <2>1, LoseCreateTypes DEF Create, ClusterType, TypeOK
  <2>3. /\ pc' \in [Instances -> PCs]
        /\ k' \in [Instances -> 1..(Len(CsiPlan) + 1)]
        /\ result' \in [Instances -> Results]
        /\ failed' \in [Instances -> BOOLEAN]
    <3>1. CASE ReturnVia(i, "csiDelete", r) /\ Fail(i)
      BY <3>1, ReturnTypes DEF TypeOK, PCs
    <3>2. CASE Goto(i, next) /\ UNCHANGED <<k, result, failed>>
      BY <3>2, GotoTypes DEF TypeOK
    <3> QED
      BY <2>1, <3>1, <3>2, Zenon DEF Create
  <2> QED
    BY <1>0, <2>1, <2>2, <2>3 DEF Create, TypeOK, ClusterType
<1>14. ASSUME NEW i \in Instances, DeletePod(i) \/ DeleteNodePool(i) PROVE TypeOK'
  <2>1. PICK kind \in {"pool", "pod"}, next \in PCs :
            Delete(i, kind, next) /\ Own(i, kind) \in Objects
    <3>1. CASE DeleteNodePool(i)
      <4>1. Own(i, "pool") \in Objects
        BY <3>1, OwnObjects DEF DeleteNodePool, Collecting, Control
      <4> QED
        BY <3>1, <4>1 DEF DeleteNodePool, PCs
    <3>2. CASE DeletePod(i)
      <4>1. Own(i, "pod") \in Objects
        BY <3>2, OwnObjects DEF DeletePod, Collecting
      <4> QED
        BY <3>2, <4>1 DEF DeletePod, PCs
    <3> QED
      BY <1>14, <3>1, <3>2
  <2>2. ClusterType' /\ owner' = owner
    BY <2>1, LoseDeleteTypes, RemoveTypes DEF Delete
  <2> QED
    BY <1>0, <2>1, <2>2 DEF Delete, TypeOK, ClusterType
<1>15. ASSUME NEW i \in Instances, DeleteCSI(i) PROVE TypeOK'
  <2>1. Own(i, CsiPlan[k[i]]) \in Objects
    <3>1. pc[i] \notin Collecting \cup {"record"} /\ k[i] \in 1..Len(CsiPlan)
      BY <1>0, <1>15 DEF DeleteCSI, Collecting, TypeOK
    <3> QED
      BY <3>1, OwnObjects
  <2>2. ClusterType' /\ owner' = owner
    BY <1>15, <2>1, LoseDeleteTypes, RemoveTypes DEF DeleteCSI
  <2>3. /\ pc' \in [Instances -> PCs]
        /\ k' \in [Instances -> 1..(Len(CsiPlan) + 1)]
        /\ failed' \in [Instances -> BOOLEAN]
    <3>1. \/ k' = [k EXCEPT ![i] = @ + 1] /\ UNCHANGED <<pc, failed>>
          \/ Goto(i, "record") /\ Fail(i) /\ UNCHANGED k
      BY <1>15 DEF DeleteCSI
    <3>2. k[i] + 1 \in 1..(Len(CsiPlan) + 1)
      BY <1>0, <1>15 DEF DeleteCSI, TypeOK
    <3> QED
      BY <1>0, <3>1, <3>2 DEF TypeOK, PCs
  <2> QED
    BY <1>0, <1>15, <2>2, <2>3 DEF DeleteCSI, TypeOK, ClusterType
<1>16. ASSUME NEW i \in Instances, Record(i) \/ Crash(i) PROVE TypeOK'
  <2>1. Reset(i)
    BY <1>16 DEF Record, Crash
  <2>2. ClusterType' /\ owner' = owner
    <3>1. CASE UNCHANGED cluster
      BY <1>2, <3>1
    <3>2. CASE \E o \in Objects : LoseCreate(i, o)
      BY <3>2, LoseCreateTypes
    <3>3. pc[i] \in {"csiCreate", "poolCreate", "podCreate"} => pc[i] \notin Collecting \cup {"record"}
      BY DEF Collecting
    <3>4. pc[i] = "poolCreate" => EnableNodeProvisioningTest
      BY DEF Control
    <3> QED
      BY <1>16, <3>1, <3>2, <3>3, <3>4, OwnObjects DEF Record, Crash, TypeOK
  <2> QED
    <3>1. /\ pc' \in [Instances -> PCs]
          /\ time' \in [Instances -> {"ample", "ending", "over"}]
          /\ stamp' \in [Instances -> Stamps \cup {NoStamp}]
          /\ todo' \in [Instances -> SUBSET Objects]
      BY <2>1 DEF Reset, TypeOK, PCs
    <3>2. /\ stage' \in [Instances -> 1..Len(GcStages)]
          /\ k' \in [Instances -> 1..(Len(CsiPlan) + 1)]
          /\ failed' \in [Instances -> BOOLEAN]
          /\ result' \in [Instances -> Results]
      BY <1>0, <1>1, <2>1 DEF Reset, TypeOK, Results
    <3> QED
      BY <1>0, <2>2, <3>1, <3>2 DEF TypeOK, ClusterType
<1>17. ASSUME NEW i \in Instances, Expire(i) PROVE TypeOK'
  BY <1>0, <1>2, <1>17 DEF Expire, TypeOK, ClusterType
<1>18. ASSUME NEW o \in Objects, GrowOld(o) \/ Gone(o) PROVE TypeOK'
  BY <1>0, <1>18 DEF GrowOld, Gone, TypeOK
<1>19. ASSUME NEW o \in Objects, Land(o) PROVE TypeOK'
  <2>1. Cardinality(late') <= MaxLate
    <3>1. IsFiniteSet(late)
      BY ObjectsFinite, FS_Subset DEF TypeOK
    <3>2. Cardinality(late \ {o}) \in Nat /\ Cardinality(late \ {o}) <= Cardinality(late)
      BY <3>1, FS_CardinalityType, FS_Subset
    <3> QED
      BY <1>19, <3>1, <3>2, EnvironmentAssumption, FS_CardinalityType DEF Land, TypeOK
  <2> QED
    BY <1>0, <1>19, <2>1 DEF Land, TypeOK
<1> QED
  <2>1. \/ \E i \in Instances : RunStep(i) \/ GcList(i) \/ Expire(i) \/ Crash(i)
        \/ \E o \in Objects : GrowOld(o) \/ Gone(o) \/ Land(o)
    BY <1>3 DEF Next
  <2>2. ASSUME NEW i \in Instances, RunStep(i) PROVE TypeOK'
    BY <2>2, <1>4, <1>6, <1>7, <1>8, <1>9, <1>10, <1>11, <1>12, <1>13, <1>14, <1>15, <1>16,
       Zenon DEF RunStep
  <2> QED
    BY <2>1, <2>2, <1>5, <1>16, <1>17, <1>18, <1>19

\* A run that has its timestamp goes to a step and k.
LEMMA GotoControl ==
    ASSUME TypeOK, Control, NEW i \in Instances, pc[i] \notin Collecting \cup {"record"},
           NEW step \in PCs \ Collecting, Goto(i, step), UNCHANGED <<stamp, owner>>,
           \A o \in leaving' : o.kind # "sc",
           NEW n, k' = [k EXCEPT ![i] = n],
           step \in {"csiLimit", "scLimit", "podDelete", "poolDelete"} => n = 1,
           step \in {"crd", "poolCreate", "poolDelete"} => EnableNodeProvisioningTest
    PROVE  Control'
BY DEF TypeOK, Control, Goto, Collecting

\* A step keeps the control.
LEMMA NextControl == TypeOK /\ Control /\ [Next]_vars => Control'
<1> SUFFICES ASSUME TypeOK, Control, [Next]_vars PROVE Control'
  OBVIOUS
<1>1. CsiPlan' = CsiPlan /\ enabledCSIs' = enabledCSIs
  BY DEF TypeOK, Next, vars, CsiPlan
<1>2. SUFFICES ASSUME ~UNCHANGED vars PROVE Control'
  BY DEF Control, vars, state
<1> USE StampsAssumption DEF Goto, Fail, Return, ReturnVia, cluster, gc, Collecting
<1>3. ASSUME NEW i \in Instances, NextStage(i), UNCHANGED <<leaving, k>>,
             pc[i] \in {"gcList", "gcDelete"}
      PROVE  Control'
  <2>1. CASE stage[i] < Len(GcStages)
    BY <1>3, <2>1 DEF NextStage, Control, TypeOK
  <2>2. CASE ~(stage[i] < Len(GcStages)) /\ pc' = [pc EXCEPT ![i] = "record"]
    BY <1>3, <2>2 DEF NextStage, Control, TypeOK
  <2>3. ASSUME ~(stage[i] < Len(GcStages)), NEW t \in Stamps, Fresh(t),
               pc' = [pc EXCEPT ![i] = "csiLimit"],
               stamp' = [stamp EXCEPT ![i] = t],
               owner' = [owner EXCEPT ![t] = Label[i]]
        PROVE  Control'
    BY <1>3, <2>3 DEF Fresh, Control, TypeOK
  <2> QED
    BY <1>3, <2>1, <2>2, <2>3 DEF NextStage
<1>4. ASSUME NEW i \in Instances, StartRun(i) \/ GcList(i) \/ Expire(i) PROVE Control'
  <2>1. UNCHANGED <<leaving, owner, stamp, k>>
    BY <1>4 DEF StartRun, GcList, Expire
  <2>2. CASE StartRun(i)
    <3>1. pc[i] = "idle" /\ pc' = [pc EXCEPT ![i] = "gcList"]
      BY <2>2 DEF StartRun
    <3> QED
      BY <2>1, <3>1 DEF Control, TypeOK
  <2>3. CASE GcList(i)
    <3>1. pc[i] = "gcList" /\ pc' = [pc EXCEPT ![i] = "gcDelete"]
      BY <2>3 DEF GcList
    <3> QED
      BY <2>1, <3>1 DEF Control, TypeOK
  <2>4. CASE Expire(i)
    <3>1. pc' = pc
      BY <2>4 DEF Expire
    <3> QED
      BY <2>1, <3>1 DEF Control
  <2> QED
    BY <1>4, <2>2, <2>3, <2>4
<1>5. ASSUME NEW i \in Instances, GcListFails(i) \/ GcDone(i) PROVE Control'
  BY <1>3, <1>5 DEF GcListFails, GcDone
<1>6. ASSUME NEW i \in Instances, NEW o \in Objects, GcDelete(i, o) PROVE Control'
  <2>1. owner' = owner /\ \A x \in leaving' : x.kind # "sc"
    BY <1>6, RemoveTypes, LoseDeleteTypes DEF GcDelete, Control
  <2> QED
    BY <1>6, <2>1 DEF GcDelete, Control
<1> USE DEF LimitListFails, LimitListOk
<1>7. ASSUME NEW i \in Instances,
             \/ CheckCSILimit(i) \/ CheckSCLimit(i) \/ CreatedCSI(i) \/ CheckPodLimit(i)
      PROVE  Control'
  <2>1. /\ UNCHANGED <<stamp, owner, leaving>>
        /\ pc[i] \notin Collecting \cup {"record"}
    BY <1>7 DEF CheckCSILimit, CheckSCLimit, CreatedCSI, CheckPodLimit
  <2>2. \/ \E step \in {"record", "csiDelete"} : Goto(i, step) /\ k' = [k EXCEPT ![i] = 1]
        \/ \E step \in {"csiCreate", "podLimit", "crd", "podCreate"} :
                /\ Goto(i, step)
                /\ step = "crd" => EnableNodeProvisioningTest
                /\ k' = [k EXCEPT ![i] = k[i]]
        \/ pc[i] = "csiLimit" /\ Goto(i, "scLimit") /\ k' = [k EXCEPT ![i] = k[i]]
    BY <1>7 DEF CheckCSILimit, CheckSCLimit, CreatedCSI, CheckPodLimit, TypeOK
  <2>3. PICK step \in PCs \ Collecting, n \in Nat :
            /\ Goto(i, step) /\ k' = [k EXCEPT ![i] = n]
            /\ step \in {"csiLimit", "scLimit", "podDelete", "poolDelete"} => n = 1
            /\ step \in {"crd", "poolCreate", "poolDelete"} => EnableNodeProvisioningTest
    <3>1. k[i] \in Nat
      BY PlanFacts DEF TypeOK
    <3> QED
      BY <2>2, <3>1 DEF PCs, Control
  <2> QED
    BY <2>1, <2>3, GotoControl DEF Control
<1>8. ASSUME NEW i \in Instances,
             \/ CheckCRD(i) \/ PollRunning(i) \/ PollExpires(i) \/ Measure(i)
             \/ Connect(i) \/ DeletedCSI(i)
      PROVE  Control'
  <2>1. UNCHANGED <<stamp, owner, leaving>>
    BY <1>8 DEF CheckCRD, PollRunning, PollExpires, Measure, Connect, DeletedCSI
  <2>2. CASE CheckCRD(i)
    <3>1. \/ pc' = [pc EXCEPT ![i] = "poolCreate"] /\ k' = k
          \/ pc' = [pc EXCEPT ![i] = "csiDelete"] /\ k' = [k EXCEPT ![i] = 1]
      BY <2>2 DEF CheckCRD
    <3>2. pc[i] = "crd" /\ EnableNodeProvisioningTest
      BY <2>2 DEF CheckCRD, Control
    <3>3. \A o \in leaving' : o.kind # "sc"
      BY <2>1 DEF Control
    <3>5. CASE pc' = [pc EXCEPT ![i] = "poolCreate"] /\ k' = k
      <4>1. pc'[i] = "poolCreate" /\ \A j \in Instances \ {i} : pc'[j] = pc[j]
        BY <3>5 DEF TypeOK
      <4>2. UNCHANGED <<stamp, owner, leaving, k>>
        BY <2>1, <3>5
      <4> HIDE DEF Collecting
      <4>3. "crd" \notin Collecting \cup {"record"} /\ "poolCreate" \notin Collecting \cup {"record"}
        BY DEF Collecting
      <4> QED
        BY <3>2, <4>1, <4>2, <4>3 DEF Control
    <3>6. CASE pc' = [pc EXCEPT ![i] = "csiDelete"] /\ k' = [k EXCEPT ![i] = 1]
      <4>1. "csiDelete" \in PCs \ Collecting /\ pc[i] \notin Collecting \cup {"record"}
        BY <3>2 DEF PCs
      <4> QED
        BY <2>1, <3>3, <3>6, <4>1, GotoControl
    <3> QED
      BY <3>1, <3>5, <3>6
  <2>3. CASE PollRunning(i) \/ PollExpires(i)
    BY <2>1, <2>3 DEF PollRunning, PollExpires, Control, TypeOK
  <2>4. CASE Measure(i) \/ Connect(i)
    BY <2>1, <2>4 DEF Measure, Connect, Control, TypeOK
  <2>5. CASE DeletedCSI(i)
    BY <2>1, <2>5 DEF DeletedCSI, Control, TypeOK
  <2> QED
    BY <1>8, <2>2, <2>3, <2>4, <2>5
<1>9. ASSUME NEW i \in Instances, CreateCSI(i) PROVE Control'
  BY <1>9 DEF CreateCSI, LoseCreate, Control, TypeOK
<1>10. ASSUME NEW i \in Instances, CreateNodePool(i) \/ CreatePod(i) PROVE Control'
  <2>1. /\ UNCHANGED <<stamp, owner, leaving>>
        /\ pc[i] \notin Collecting \cup {"record"}
        /\ \/ Goto(i, "csiDelete") /\ k' = [k EXCEPT ![i] = 1]
           \/ \E step \in {"podCreate", "poll"} : Goto(i, step) /\ k' = [k EXCEPT ![i] = k[i]]
    BY <1>10 DEF CreateNodePool, CreatePod, Create, LoseCreate, TypeOK
  <2> QED
    BY <2>1, GotoControl DEF Control, PCs
<1>11. ASSUME NEW i \in Instances, NEW o \in Objects,
              Remove(o) \/ LoseDelete(i, o),
              UNCHANGED <<stamp, owner>>,
              pc[i] \in {"podDelete", "poolDelete", "csiDelete"},
              \/ \E step \in {"poolDelete", "csiDelete", "record"} :
                    /\ Goto(i, step)
                    /\ step = "poolDelete" => EnableNodeProvisioningTest /\ pc[i] = "podDelete"
                    /\ UNCHANGED k
              \/ pc[i] = "csiDelete" /\ UNCHANGED pc /\ \E n \in Nat : k' = [k EXCEPT ![i] = n]
       PROVE  Control'
  <2>1. \A x \in leaving' : x.kind # "sc"
    BY <1>11, RemoveTypes, LoseDeleteTypes
  <2>2. PICK step \in PCs \ Collecting, n \in Nat :
            /\ Goto(i, step) /\ k' = [k EXCEPT ![i] = n]
            /\ step \in {"csiLimit", "scLimit", "podDelete", "poolDelete"} => n = 1
            /\ step \in {"crd", "poolCreate", "poolDelete"} => EnableNodeProvisioningTest
    <3>0. k[i] \in Nat
      BY PlanFacts DEF TypeOK
    <3>1. CASE pc[i] = "csiDelete" /\ UNCHANGED pc
      <4>1. PICK n \in Nat : k' = [k EXCEPT ![i] = n]
        BY <1>11, <3>0, <3>1 DEF TypeOK
      <4>2. Goto(i, "csiDelete")
        BY <3>1 DEF TypeOK
      <4>3. /\ "csiDelete" \in PCs \ Collecting
            /\ "csiDelete" \notin {"csiLimit", "scLimit", "podDelete", "poolDelete"}
            /\ "csiDelete" \notin {"crd", "poolCreate", "poolDelete"}
        BY DEF PCs, Collecting
      <4> QED
        BY <4>1, <4>2, <4>3, Zenon
    <3>2. ASSUME NEW step \in {"poolDelete", "csiDelete", "record"}, Goto(i, step),
                 step = "poolDelete" => EnableNodeProvisioningTest /\ pc[i] = "podDelete",
                 UNCHANGED k
          PROVE  /\ step \in PCs \ Collecting
                 /\ k' = [k EXCEPT ![i] = k[i]]
                 /\ step \in {"csiLimit", "scLimit", "podDelete", "poolDelete"} => k[i] = 1
                 /\ step \in {"crd", "poolCreate", "poolDelete"} => EnableNodeProvisioningTest
      BY <3>2 DEF TypeOK, PCs, Control
    <3>3. CASE ~(pc[i] = "csiDelete" /\ UNCHANGED pc)
      <4>1. PICK step \in {"poolDelete", "csiDelete", "record"} :
                /\ Goto(i, step)
                /\ step = "poolDelete" => EnableNodeProvisioningTest /\ pc[i] = "podDelete"
                /\ UNCHANGED k
        BY <1>11, <3>3
      <4> QED
        BY <3>0, <3>2, <4>1
    <3> QED
      BY <3>1, <3>3
  <2> QED
    BY <1>11, <2>1, <2>2, GotoControl
<1>12. ASSUME NEW i \in Instances, DeletePod(i) \/ DeleteNodePool(i) \/ DeleteCSI(i) PROVE Control'
  <2>1. CASE DeletePod(i)
    <3>1. Own(i, "pod") \in Objects
      BY <2>1, OwnObjects DEF DeletePod
    <3> QED
      BY <2>1, <1>11, <3>1 DEF DeletePod, Delete, Remove, LoseDelete
  <2>2. CASE DeleteNodePool(i)
    <3>1. Own(i, "pool") \in Objects
      BY <2>2, OwnObjects DEF DeleteNodePool, Control
    <3> QED
      BY <2>2, <1>11, <3>1 DEF DeleteNodePool, Delete, Remove, LoseDelete
  <2>3. CASE DeleteCSI(i)
    <3>1. k[i] \in 1..Len(CsiPlan)
      BY <2>3, PlanFacts DEF DeleteCSI, TypeOK
    <3>2. Own(i, CsiPlan[k[i]]) \in Objects
      BY <2>3, <3>1, OwnObjects DEF DeleteCSI
    <3>3. k[i] + 1 \in Nat
      BY <3>1, PlanFacts DEF TypeOK
    <3> QED
      BY <2>3, <1>11, <3>2, <3>3 DEF DeleteCSI, Remove, LoseDelete
  <2> QED
    BY <1>12, <2>1, <2>2, <2>3
<1>13. ASSUME NEW i \in Instances, Record(i) \/ Crash(i) PROVE Control'
  <2>1. Reset(i) /\ UNCHANGED <<leaving, owner>>
    BY <1>13 DEF Record, Crash, LoseCreate
  <2> QED
    BY <2>1 DEF Reset, Control, TypeOK
<1>14. ASSUME NEW o \in Objects, GrowOld(o) \/ Gone(o) \/ Land(o) PROVE Control'
  BY <1>14 DEF GrowOld, Gone, Land, Control
<1> QED
  <2>1. \/ \E i \in Instances : RunStep(i) \/ GcList(i) \/ Expire(i) \/ Crash(i)
        \/ \E o \in Objects : GrowOld(o) \/ Gone(o) \/ Land(o)
    BY <1>2 DEF Next
  <2>2. ASSUME NEW i \in Instances, RunStep(i) PROVE Control'
    BY <2>2, <1>4, <1>5, <1>6, <1>7, <1>8, <1>9, <1>10, <1>12, <1>13, Zenon DEF RunStep
  <2> QED
    BY <2>1, <2>2, <1>4, <1>13, <1>14

\* All this holds at first.
LEMMA InitInv == Init => TypeOK /\ Control
<1> SUFFICES ASSUME Init PROVE TypeOK /\ Control
  OBVIOUS
<1>1. Len(CsiPlan) \in Nat /\ Len(GcStages) \in Nat \ {0}
  BY PlanFacts DEF Init, GcStages
<1>2. Cardinality(late) = 0
  BY FS_EmptySet DEF Init
<1>3. TypeOK
  BY <1>1, <1>2, EnvironmentAssumption DEF Init, TypeOK, PCs, Results
<1>4. Control
  BY StampsAssumption DEF Init, Control, Collecting
<1> QED
  BY <1>3, <1>4

\* The types hold, and with them the order of a run's steps: when it has its
\* timestamp, that no other run has the same, and whose label its objects carry.
THEOREM Types == Spec => [](TypeOK /\ Control)
BY InitInv, NextType, NextControl, PTL DEF Spec

\* Whatever the configurations' lists of CSI types, a run stays within the plan
\* and the stages, and what it lists and creates among the objects there are.
THEOREM TypeCorrect == Spec => []TypeOK
  BY Types, PTL

-----------------------------------------------------------------------------
(* A run's own objects survive.                                            *)

PlanKinds == {CsiPlan[n] : n \in 1..Len(CsiPlan)}

\* The steps of a run, from its timestamp on, that come before its Pod.
BeforePod == {"csiLimit", "scLimit", "csiCreate", "podLimit", "crd", "poolCreate",
              "podCreate"}
\* Those that come after its first CSI resource.
WithCSI == {"csiCreate", "podLimit", "crd", "poolCreate", "podCreate", "poll",
            "measure", "connect", "podDelete", "poolDelete", "csiDelete"}

\* How far i's run is with the plan.
Done(i) == IF pc[i] = "csiCreate" THEN k[i] - 1 ELSE Len(CsiPlan)

\* What keeps garbage collection away from the objects of a run whose time is
\* ample: they are not old, and the stage that disregards age lists NodePools
\* only. Besides, no Pod of the run is there before it is created, and a plan
\* that names a type twice ends at the second, as the object is there already.
Protected ==
    \A i \in Instances :
        /\ time[i] = "ample" => \A o \in old : o.stamp # stamp[i]
        /\ pc[i] = "gcDelete" /\ GcStages[stage[i]] = "pool" =>
            \A o \in todo[i] : o.kind = "pool"
        /\ pc[i] \in BeforePod =>
            \A o \in objs \cup late : o.stamp = stamp[i] => o.kind # "pod"
        /\ time[i] = "ample" /\ pc[i] \in WithCSI =>
            \A m, n \in 1..Done(i) : CsiPlan[m] = CsiPlan[n] => m = n

\* Made(i) is of a run that has its timestamp, and no NodePool.
LEMMA MadeFacts ==
    ASSUME TypeOK, Control, NEW i \in Instances, NEW kind \in Made(i)
    PROVE  /\ pc[i] \in WithCSI
           /\ stamp[i] \in Stamps
           /\ kind \in PVCKinds \cup {"sc", "pod"}
           /\ kind = "pod" <=> pc[i] \in {"poll", "measure", "connect", "podDelete"}
                                /\ kind \notin PlanKinds
<1>1. /\ Len(CsiPlan) \in Nat
      /\ \A n \in 1..Len(CsiPlan) : CsiPlan[n] \in PVCKinds \cup {"sc"}
  BY PlanFacts DEF TypeOK
<1>2. pc[i] \in WithCSI /\ stamp[i] \in Stamps
  BY DEF Made, WithCSI, Control, Collecting
<1>3. \/ kind \in PlanKinds
      \/ kind = "pod" /\ pc[i] \in {"poll", "measure", "connect", "podDelete"}
  BY <1>1 DEF Made, PlanKinds, TypeOK
<1>4. \A x \in PlanKinds : x \in PVCKinds \cup {"sc"}
  BY <1>1 DEF PlanKinds
<1> QED
  BY <1>2, <1>3, <1>4 DEF PVCKinds, CSITypes

\* What calls leave untouched.
LEMMA RemoveKeeps ==
    ASSUME NEW o, Remove(o), NEW x \in objs \ leaving, x # o
    PROVE  x \in objs' \ leaving'
BY DEF Remove

\* A delete that answers an error takes no more.
LEMMA LoseDeleteKeeps ==
    ASSUME NEW i, NEW o, LoseDelete(i, o), NEW x \in objs \ leaving, x # o
    PROVE  x \in objs' \ leaving'
BY DEF LoseDelete, Remove, cluster

\* A create takes nothing.
LEMMA LoseCreateKeeps ==
    ASSUME NEW i, NEW o, LoseCreate(i, o), NEW x \in objs \ leaving
    PROVE  x \in objs' \ leaving'
BY DEF LoseCreate

\* A step takes none of the objects of a run in time from it.
LEMMA NextSurvive ==
    TypeOK /\ Control /\ Protected /\ OwnObjectsSurvive /\ [Next]_vars => OwnObjectsSurvive'
<1> SUFFICES ASSUME TypeOK, Control, Protected, OwnObjectsSurvive, [Next]_vars,
                    NEW j \in Instances, time'[j] = "ample", NEW kind \in Made(j)'
             PROVE  [kind |-> kind, stamp |-> stamp'[j]] \in objs' \ leaving'
  BY DEF OwnObjectsSurvive, Own
<1> DEFINE mine == [kind |-> kind, stamp |-> stamp'[j]]
<1>1. CsiPlan' = CsiPlan /\ enabledCSIs' = enabledCSIs
  BY DEF TypeOK, Next, vars, CsiPlan
<1>2. Len(CsiPlan) \in Nat
  BY PlanFacts DEF TypeOK
\* A run that only watches.
<1>3. ASSUME pc'[j] = pc[j], k'[j] = k[j], stamp'[j] = stamp[j], time[j] = "ample"
      PROVE  /\ kind \in Made(j)
             /\ mine = Own(j, kind) /\ mine \in objs \ leaving
             /\ mine.stamp \in Stamps /\ mine.kind # "pool" /\ mine \notin old
  <2>1. kind \in Made(j)
    BY <1>1, <1>3 DEF Made
  <2>2. stamp[j] \in Stamps /\ kind # "pool"
    BY <2>1, MadeFacts DEF PVCKinds, CSITypes
  <2> QED
    BY <1>3, <2>1, <2>2 DEF Own, OwnObjectsSurvive, Protected
<1>4. SUFFICES ASSUME ~UNCHANGED vars PROVE mine \in objs' \ leaving'
  BY <1>3 DEF vars, state
<1> HIDE DEF mine
<1> USE DEF Goto, Fail, Return, ReturnVia, cluster, gc
<1>5. ASSUME NEW i \in Instances, StartRun(i) \/ GcList(i) \/ Expire(i)
      PROVE  mine \in objs' \ leaving'
  <2>1. CASE j = i /\ (StartRun(i) \/ GcList(i))
    BY <2>1 DEF StartRun, GcList, Made, TypeOK
  <2>2. CASE j # i \/ Expire(i)
    BY <1>3, <1>5, <2>2 DEF StartRun, GcList, Expire, TypeOK
  <2> QED
    BY <1>5, <2>1, <2>2
<1>6. ASSUME NEW i \in Instances, GcListFails(i) \/ GcDone(i)
      PROVE  mine \in objs' \ leaving'
  <2>1. CASE j = i
    BY <1>6, <2>1 DEF GcListFails, GcDone, NextStage, Made, TypeOK
  <2>2. CASE j # i
    BY <1>3, <1>6, <2>2 DEF GcListFails, GcDone, NextStage, TypeOK
  <2> QED
    BY <2>1, <2>2
<1>7. ASSUME NEW i \in Instances, NEW o \in Objects, GcDelete(i, o)
      PROVE  mine \in objs' \ leaving'
  <2>1. /\ kind \in Made(j) /\ mine = Own(j, kind) /\ mine \in objs \ leaving
        /\ mine.kind # "pool" /\ mine \notin old
    BY <1>3, <1>7 DEF GcDelete
  <2>2. CASE Expendable(i, o)
    <3>1. o # mine
      BY <1>7, <2>1, <2>2 DEF GcDelete, Expendable, Protected
    <3> QED
      BY <1>7, <2>1, <2>2, <3>1, RemoveKeeps, LoseDeleteKeeps DEF GcDelete
  <2>3. CASE ~Expendable(i, o)
    BY <1>7, <2>1, <2>3 DEF GcDelete
  <2> QED
    BY <2>2, <2>3
<1> USE DEF LimitListFails, LimitListOk
<1>8. ASSUME NEW i \in Instances, CheckCSILimit(i) \/ CheckSCLimit(i)
      PROVE  mine \in objs' \ leaving'
  <2>1. CASE j = i
    <3>1. k[i] = 1
      BY <1>8 DEF CheckCSILimit, CheckSCLimit, Control
    <3>2. pc'[i] \in {"scLimit", "csiCreate", "record"} /\ k'[i] = 1
      BY <1>8, <3>1 DEF CheckCSILimit, CheckSCLimit, TypeOK
    <3> QED
      BY <1>1, <2>1, <3>2 DEF Made
  <2>2. CASE j # i
    BY <1>3, <1>8, <2>2 DEF CheckCSILimit, CheckSCLimit, TypeOK
  <2> QED
    BY <2>1, <2>2
<1>9. ASSUME NEW i \in Instances, CreateCSI(i)
      PROVE  mine \in objs' \ leaving'
  <2>1. CASE j = i
    <3>1. PICK o \in {Own(i, CsiPlan[k[i]])} :
              /\ o \notin objs /\ objs' = objs \cup {o}
              /\ k' = [k EXCEPT ![i] = @ + 1]
              /\ UNCHANGED <<leaving, pc, stamp, time>>
      BY <1>9, <2>1 DEF CreateCSI, Made, TypeOK
    <3>2. pc'[i] = "csiCreate" /\ k'[i] = k[i] + 1 /\ k[i] \in Nat
      BY <1>9, <3>1 DEF CreateCSI, TypeOK
    <3>3. PICK n \in 1..k[i] : kind = CsiPlan[n]
      BY <1>1, <2>1, <3>2 DEF Made
    <3>4. CASE n = k[i]
      BY <2>1, <3>1, <3>3, <3>4 DEF TypeOK, mine, Own
    <3>5. CASE n # k[i]
      <4>1. kind \in Made(i)
        BY <3>2, <3>3, <3>5, <1>9 DEF Made, CreateCSI
      <4> QED
        BY <2>1, <3>1, <4>1 DEF OwnObjectsSurvive, mine, Own
    <3> QED
      BY <3>4, <3>5
  <2>2. CASE j # i
    BY <1>3, <1>9, <2>2, LoseCreateKeeps DEF CreateCSI, TypeOK
  <2> QED
    BY <2>1, <2>2
<1>10. ASSUME NEW i \in Instances, CreatedCSI(i) \/ CheckPodLimit(i) \/ CheckCRD(i)
      PROVE  mine \in objs' \ leaving'
  <2>1. CASE j = i
    <3>1. /\ pc[i] \in {"csiCreate", "podLimit", "crd"} /\ (pc[i] = "csiCreate" => k[i] = Len(CsiPlan) + 1)
          /\ UNCHANGED <<objs, leaving, stamp, time>>
          /\ \/ pc'[i] \in {"podLimit", "crd", "poolCreate", "podCreate"}
             \/ pc'[i] = "csiDelete" /\ k'[i] = 1
      BY <1>2, <1>10 DEF CreatedCSI, CheckPodLimit, CheckCRD, TypeOK
    <3>2. kind \in Made(i)
      BY <1>1, <1>2, <2>1, <3>1 DEF Made
    <3> QED
      BY <2>1, <3>1, <3>2 DEF OwnObjectsSurvive, mine, Own
  <2>2. CASE j # i
    BY <1>3, <1>10, <2>2 DEF CreatedCSI, CheckPodLimit, CheckCRD, TypeOK
  <2> QED
    BY <2>1, <2>2
<1>11. ASSUME NEW i \in Instances, NEW x, NEW next, NEW r, Create(i, x, next, r),
              \/ pc[i] = "poolCreate" /\ next = "podCreate"
              \/ pc[i] = "podCreate" /\ next = "poll" /\ x = "pod"
      PROVE  mine \in objs' \ leaving'
  <2>1. CASE j = i
    <3>1. /\ UNCHANGED <<stamp, time, leaving>>
          /\ \/ pc'[i] = next /\ objs' = objs \cup {Own(i, x)}
             \/ pc'[i] = "csiDelete" /\ k'[i] = 1 /\ LoseCreate(i, Own(i, x))
      BY <1>11 DEF Create, TypeOK, LoseCreate
    <3>2. \/ kind \in Made(i)
          \/ kind = "pod" /\ pc[i] = "podCreate" /\ x = "pod" /\ pc'[i] = "poll"
      BY <1>1, <1>2, <1>11, <2>1, <3>1 DEF Made
    <3>3. CASE kind \in Made(i)
      BY <2>1, <3>1, <3>3, LoseCreateKeeps DEF OwnObjectsSurvive, mine, Own
    <3>4. CASE kind = "pod" /\ pc[i] = "podCreate" /\ x = "pod" /\ pc'[i] = "poll"
      <4>1. mine = Own(i, x) /\ mine \in objs'
        BY <2>1, <3>1, <3>4 DEF mine, Own
      <4>2. mine \notin objs
        BY <3>4, <4>1 DEF Protected, BeforePod, Own
      <4> QED
        BY <3>1, <4>1, <4>2 DEF TypeOK
    <3> QED
      BY <3>2, <3>3, <3>4
  <2>2. CASE j # i
    BY <1>3, <1>11, <2>2, LoseCreateKeeps DEF Create, TypeOK
  <2> QED
    BY <2>1, <2>2
<1>12. ASSUME NEW i \in Instances, PollRunning(i) \/ PollExpires(i) \/ Measure(i) \/ Connect(i)
      PROVE  mine \in objs' \ leaving'
  <2>1. CASE j = i
    <3>1. /\ UNCHANGED <<objs, leaving, stamp, time>>
          /\ pc[i] \in {"poll", "measure", "connect"}
          /\ pc'[i] \in {"measure", "connect", "podDelete"}
      BY <1>12 DEF PollRunning, PollExpires, Measure, Connect, TypeOK
    <3>2. kind \in Made(i)
      BY <1>1, <2>1, <3>1 DEF Made
    <3> QED
      BY <2>1, <3>1, <3>2 DEF OwnObjectsSurvive, mine, Own
  <2>2. CASE j # i
    BY <1>3, <1>12, <2>2 DEF PollRunning, PollExpires, Measure, Connect, TypeOK
  <2> QED
    BY <2>1, <2>2
\* Of another run's deletion.
<1>13. ASSUME NEW i \in Instances, NEW x, Remove(Own(i, x)) \/ LoseDelete(i, Own(i, x)),
              j # i, pc'[j] = pc[j], k'[j] = k[j], stamp'[j] = stamp[j], time[j] = "ample"
      PROVE  mine \in objs' \ leaving'
  <2>1. mine # Own(i, x)
    <3>1. mine.stamp = stamp[j] /\ stamp[j] \in Stamps
      BY <1>3, <1>13 DEF Own
    <3>2. stamp[i] # stamp[j]
      BY <1>13, <3>1, StampsAssumption DEF Control
    <3> QED
      BY <3>1, <3>2 DEF Own
  <2> QED
    BY <1>3, <1>13, <2>1, RemoveKeeps, LoseDeleteKeeps
<1>14. ASSUME NEW i \in Instances, DeletePod(i) \/ DeleteNodePool(i)
      PROVE  mine \in objs' \ leaving'
  <2>1. CASE j = i
    <3>1. PICK x \in {"pod", "pool"} :
             /\ Remove(Own(i, x)) \/ LoseDelete(i, Own(i, x))
             /\ UNCHANGED <<stamp, time, k>>
             /\ pc'[i] \in {"poolDelete", "csiDelete"}
             /\ pc[i] \in {"podDelete", "poolDelete"}
      BY <1>14 DEF DeletePod, DeleteNodePool, Delete, TypeOK
    <3>2. k[i] = 1
      BY <3>1 DEF Control
    <3>3. kind \in PlanKinds /\ kind \in Made(i)
      BY <1>1, <1>2, <2>1, <3>1, <3>2 DEF Made, PlanKinds
    <3>4. mine # Own(i, x)
      <4>1. kind \in PVCKinds \cup {"sc"}
        BY <3>3, PlanFacts DEF PlanKinds, TypeOK
      <4> QED
        BY <3>1, <4>1 DEF Own, mine, PVCKinds, CSITypes
    <3> QED
      BY <2>1, <3>1, <3>3, <3>4, RemoveKeeps, LoseDeleteKeeps DEF OwnObjectsSurvive, mine, Own
  <2>2. CASE j # i
    BY <1>13, <1>14, <2>2 DEF DeletePod, DeleteNodePool, Delete, TypeOK
  <2> QED
    BY <2>1, <2>2
<1>15. ASSUME NEW i \in Instances, DeleteCSI(i)
      PROVE  mine \in objs' \ leaving'
  <2>1. CASE j = i
    <3>1. /\ Remove(Own(i, CsiPlan[k[i]]))
          /\ k' = [k EXCEPT ![i] = @ + 1]
          /\ UNCHANGED <<stamp, time, pc>>
      BY <1>15, <2>1 DEF DeleteCSI, Made, TypeOK
    <3>2. pc[i] = "csiDelete" /\ k[i] \in 1..Len(CsiPlan) /\ k'[i] = k[i] + 1
      BY <1>2, <1>15, <3>1 DEF DeleteCSI, TypeOK
    <3>3. PICK n \in (k[i] + 1)..Len(CsiPlan) : kind = CsiPlan[n]
      BY <1>1, <2>1, <3>1, <3>2 DEF Made
    <3>4. kind # CsiPlan[k[i]]
      BY <1>2, <2>1, <3>1, <3>2, <3>3 DEF Protected, WithCSI, Done
    <3>5. kind \in Made(i)
      BY <1>2, <3>2, <3>3 DEF Made
    <3>6. mine # Own(i, CsiPlan[k[i]])
      BY <3>4 DEF Own, mine
    <3> QED
      BY <2>1, <3>1, <3>5, <3>6, RemoveKeeps DEF OwnObjectsSurvive, mine, Own
  <2>2. CASE j # i
    BY <1>13, <1>15, <2>2 DEF DeleteCSI, TypeOK
  <2> QED
    BY <2>1, <2>2
<1>16. ASSUME NEW i \in Instances, DeletedCSI(i) \/ Record(i) \/ Crash(i)
      PROVE  mine \in objs' \ leaving'
  <2>1. CASE j = i
    BY <1>16, <2>1 DEF DeletedCSI, Record, Crash, Reset, Made, TypeOK
  <2>2. CASE j # i
    BY <1>3, <1>16, <2>2, LoseCreateKeeps DEF DeletedCSI, Record, Crash, Reset, TypeOK
  <2> QED
    BY <2>1, <2>2
<1>17. ASSUME NEW o \in Objects, GrowOld(o) \/ Gone(o) \/ Land(o)
      PROVE  mine \in objs' \ leaving'
  BY <1>3, <1>17 DEF GrowOld, Gone, Land
<1> QED
  <2>1. \/ \E i \in Instances : RunStep(i) \/ GcList(i) \/ Expire(i) \/ Crash(i)
        \/ \E o \in Objects : GrowOld(o) \/ Gone(o) \/ Land(o)
    BY <1>4 DEF Next
  <2>2. ASSUME NEW i \in Instances, CreateNodePool(i) \/ CreatePod(i)
        PROVE  mine \in objs' \ leaving'
    BY <1>11, <2>2 DEF CreateNodePool, CreatePod
  <2>3. ASSUME NEW i \in Instances, RunStep(i) PROVE mine \in objs' \ leaving'
    BY <2>2, <2>3, <1>5, <1>6, <1>7, <1>8, <1>9, <1>10, <1>12, <1>14, <1>15, <1>16, Zenon
       DEF RunStep
  <2> QED
    BY <2>1, <2>3, <1>5, <1>16, <1>17


\* A step leaves the objects of a run in time protected.
LEMMA NextProtected ==
    TypeOK /\ Control /\ Protected /\ OwnObjectsSurvive /\ [Next]_vars => Protected'
<1> SUFFICES ASSUME TypeOK, Control, Protected, OwnObjectsSurvive, [Next]_vars,
                    NEW j \in Instances
             PROVE  /\ time'[j] = "ample" => \A o \in old' : o.stamp # stamp'[j]
                    /\ pc'[j] = "gcDelete" /\ GcStages[stage'[j]] = "pool" =>
                        \A o \in todo'[j] : o.kind = "pool"
                    /\ pc'[j] \in BeforePod =>
                        \A o \in (objs \cup late)' : o.stamp = stamp'[j] => o.kind # "pod"
                    /\ time'[j] = "ample" /\ pc'[j] \in WithCSI =>
                        \A m, n \in 1..Done(j)' : CsiPlan'[m] = CsiPlan'[n] => m = n
  BY DEF Protected
<1>1. CsiPlan' = CsiPlan /\ enabledCSIs' = enabledCSIs /\ Len(CsiPlan) \in Nat
  BY PlanFacts DEF TypeOK, Next, vars, CsiPlan
<1> DEFINE Old == time'[j] = "ample" => \A o \in old' : o.stamp # stamp'[j]
           Pools == pc'[j] = "gcDelete" /\ GcStages[stage'[j]] = "pool" =>
                        \A o \in todo'[j] : o.kind = "pool"
           NoPod == pc'[j] \in BeforePod =>
                        \A o \in (objs \cup late)' : o.stamp = stamp'[j] => o.kind # "pod"
           Once == time'[j] = "ample" /\ pc'[j] \in WithCSI =>
                        \A m, n \in 1..Done(j)' : CsiPlan'[m] = CsiPlan'[n] => m = n
<1>2. SUFFICES ASSUME ~UNCHANGED vars PROVE Old /\ Pools /\ NoPod /\ Once
  BY <1>1 DEF Protected, vars, state, Done
<1>3. SUFFICES Old /\ Pools /\ NoPod /\ Once
  OBVIOUS
\* A run whose time and timestamp stay, and no object grows old.
<1>4. ASSUME old' \subseteq old, stamp'[j] = stamp[j], time'[j] = "ample" => time[j] = "ample"
      PROVE  Old
  BY <1>4 DEF Protected
\* One that collects as before, or no more.
<1>5. ASSUME \/ pc'[j] # "gcDelete"
             \/ pc'[j] = pc[j] /\ todo'[j] \subseteq todo[j] /\ stage'[j] = stage[j]
      PROVE  Pools
  BY <1>5 DEF Protected
\* One whose Pod no call creates before its time.
<1>6. ASSUME \/ pc'[j] \notin BeforePod
             \/ pc[j] \in BeforePod /\ stamp'[j] = stamp[j]
                  /\ \A o \in (objs \cup late)' \ (objs \cup late) :
                        o.stamp = stamp[j] => o.kind # "pod"
      PROVE  NoPod
  BY <1>6 DEF Protected
\* One that is not further with its plan.
<1>7. ASSUME \/ pc'[j] \notin WithCSI
             \/ pc[j] \in WithCSI /\ Done(j)' <= Done(j) /\ Done(j)' \in Int
             \/ pc'[j] = "csiCreate" /\ k'[j] = 1,
             time'[j] = "ample" => time[j] = "ample"
      PROVE  Once
  <2>1. Done(j) \in Int
    BY <1>1 DEF Done, TypeOK
  <2> QED
    BY <1>1, <1>7, <2>1 DEF Protected, Done, WithCSI
<1>8. ASSUME pc'[j] = pc[j], k'[j] = k[j], time'[j] = "ample" => time[j] = "ample" PROVE Once
  <2>1. Done(j)' = Done(j) /\ Done(j) \in Int
    BY <1>1, <1>8 DEF Done, TypeOK
  <2> QED
    BY <1>7, <1>8, <2>1
<1> HIDE DEF Old, Pools, NoPod, Once
<1> USE DEF Goto, Fail, Return, ReturnVia, cluster, gc
<1>9. ASSUME NEW i \in Instances, StartRun(i) \/ GcList(i) \/ Expire(i)
      PROVE  Old /\ Pools /\ NoPod /\ Once
  <2>1. UNCHANGED <<old, stamp, objs, late>>
    BY <1>9 DEF StartRun, GcList, Expire
  <2>2. CASE StartRun(i) /\ j = i
    <3>1. pc'[j] = "gcList" /\ stamp[j] = NoStamp
      BY <2>2 DEF StartRun, Control, Collecting, TypeOK
    <3>2. \A o \in old : o.stamp \in Stamps
      BY DEF TypeOK, Objects
    <3>3. Old
      BY <2>1, <3>1, <3>2, StampsAssumption DEF Old
    <3>4. Pools /\ NoPod /\ Once
      BY <3>1 DEF Pools, NoPod, Once, BeforePod, WithCSI
    <3> QED
      BY <3>3, <3>4
  <2>3. CASE GcList(i) /\ j = i
    <3>1. pc'[j] = "gcDelete" /\ time'[j] = time[j] /\ stage'[j] = stage[j]
      BY <2>3 DEF GcList, TypeOK
    <3>2. Old
      BY <1>4, <2>1, <3>1
    <3>3. GcStages[stage[j]] = "pool" => todo'[j] = {o \in objs : o.kind = "pool"}
      BY <2>3 DEF GcList, TypeOK
    <3>4. Pools
      BY <3>1, <3>3 DEF Pools
    <3> QED
      BY <3>1, <3>2, <3>4 DEF NoPod, Once, BeforePod, WithCSI
  <2>4. CASE j # i \/ Expire(i)
    <3>1. /\ pc'[j] = pc[j] /\ k'[j] = k[j] /\ todo'[j] = todo[j] /\ stage'[j] = stage[j]
          /\ time'[j] = "ample" => time[j] = "ample"
      BY <1>9, <2>4 DEF StartRun, GcList, Expire, TypeOK
    <3>2. NoPod
      BY <1>6, <2>1, <3>1
    <3> QED
      BY <1>4, <1>5, <1>8, <2>1, <3>1, <3>2
  <2> QED
    BY <1>9, <2>2, <2>3, <2>4
<1>10. ASSUME NEW i \in Instances, GcListFails(i) \/ GcDone(i)
       PROVE  Old /\ Pools /\ NoPod /\ Once
  <2>1. NextStage(i) /\ UNCHANGED <<objs, old, late, time, todo, k>>
    BY <1>10 DEF GcListFails, GcDone
  <2>2. CASE j # i
    <3>1. pc'[j] = pc[j] /\ stage'[j] = stage[j] /\ stamp'[j] = stamp[j]
      BY <2>1, <2>2 DEF NextStage, TypeOK
    <3>2. NoPod
      BY <1>6, <2>1, <3>1
    <3> QED
      BY <1>4, <1>5, <1>8, <2>1, <3>1, <3>2
  <2>3. CASE j = i /\ stamp'[i] = stamp[i] /\ pc'[i] \in {"gcList", "record"}
    <3>1. Old
      BY <1>4, <2>1, <2>3
    <3> QED
      BY <2>3, <3>1 DEF Pools, NoPod, Once, BeforePod, WithCSI
  <2>4. CASE j = i /\ pc'[i] = "csiLimit" /\ Fresh(stamp'[i])
    <3>1. Old /\ NoPod
      BY <2>1, <2>4 DEF Old, NoPod, Fresh, TypeOK
    <3> QED
      BY <2>4, <3>1 DEF Pools, Once, WithCSI
  <2>5. j = i => \/ stamp'[i] = stamp[i] /\ pc'[i] \in {"gcList", "record"}
                 \/ pc'[i] = "csiLimit" /\ Fresh(stamp'[i])
    BY <2>1 DEF NextStage, TypeOK
  <2> QED
    BY <2>2, <2>3, <2>4, <2>5
\* Calls that store nothing.
<1>11. ASSUME NEW i \in Instances, NEW o \in Objects, GcDelete(i, o)
       PROVE  Old /\ Pools /\ NoPod /\ Once
  <2>1. /\ old' \subseteq old /\ objs' \subseteq objs /\ late' = late
        /\ UNCHANGED <<pc, time, stamp, stage, k>>
    BY <1>11 DEF GcDelete, LoseDelete, Remove
  <2>2. todo'[j] \subseteq todo[j]
    BY <1>11 DEF GcDelete, TypeOK
  <2>3. NoPod
    BY <1>6, <2>1
  <2> QED
    BY <1>4, <1>5, <1>8, <2>1, <2>2, <2>3
\* A step of another run that stores no object but its own.
<1>12. ASSUME NEW i \in Instances, j # i, NEW x,
              old' \subseteq old, (objs \cup late)' \subseteq objs \cup late \cup {Own(i, x)},
              pc'[j] = pc[j], stamp'[j] = stamp[j], time'[j] = time[j], k'[j] = k[j],
              todo'[j] = todo[j], stage'[j] = stage[j]
       PROVE  Old /\ Pools /\ NoPod /\ Once
  <2>1. pc[j] \in BeforePod => stamp[i] # stamp[j]
    BY <1>12, StampsAssumption DEF Control, BeforePod, Collecting
  <2>2. NoPod
    BY <1>6, <1>12, <2>1 DEF Own
  <2> QED
    BY <1>4, <1>5, <1>8, <1>12, <2>2
<1> USE DEF LimitListFails, LimitListOk
\* A step of the run itself, between its timestamp and its Pod or after that.
<1>13. ASSUME old' \subseteq old, stamp'[j] = stamp[j], time'[j] = time[j],
              pc'[j] # "gcDelete",
              \/ pc'[j] \notin BeforePod
              \/ /\ pc[j] \in BeforePod
                 /\ \A o \in (objs \cup late)' \ (objs \cup late) : o.kind # "pod",
              \/ pc'[j] \notin WithCSI
              \/ pc[j] \in WithCSI \ {"csiCreate"} /\ pc'[j] # "csiCreate"
              \/ pc[j] = "csiCreate" /\ pc'[j] # "csiCreate" /\ k[j] > Len(CsiPlan)
              \/ pc'[j] = "csiCreate" /\ k'[j] = 1
       PROVE  Old /\ Pools /\ NoPod /\ Once
  <2>1. NoPod
    BY <1>6, <1>13
  <2>2. Once
    <3>1. CASE pc'[j] \notin WithCSI \/ (pc'[j] = "csiCreate" /\ k'[j] = 1)
      BY <1>7, <1>13, <3>1
    <3>2. CASE /\ pc[j] \in WithCSI /\ pc'[j] # "csiCreate"
               /\ pc[j] = "csiCreate" => k[j] > Len(CsiPlan)
      <4>1. Done(j)' <= Done(j) /\ Done(j)' \in Int
        BY <1>1, <3>2 DEF Done, TypeOK
      <4> QED
        BY <1>7, <1>13, <3>2, <4>1
    <3> QED
      BY <1>13, <3>1, <3>2 DEF WithCSI
  <2> QED
    BY <1>4, <1>5, <1>13, <2>1, <2>2
<1>14. ASSUME NEW i \in Instances, CheckCSILimit(i) \/ CheckSCLimit(i) \/ CreatedCSI(i)
       PROVE  Old /\ Pools /\ NoPod /\ Once
  <2>1. CASE j = i
    <3>1. UNCHANGED <<old, objs, late, stamp, time>>
      BY <1>14 DEF CheckCSILimit, CheckSCLimit, CreatedCSI
    <3>2. CASE CheckCSILimit(i) \/ CheckSCLimit(i)
      <4>1. k[i] = 1 /\ pc[i] \in BeforePod
        BY <3>2 DEF CheckCSILimit, CheckSCLimit, Control, BeforePod
      <4>2. pc'[i] \in {"scLimit", "csiCreate", "record"} /\ (pc'[i] = "csiCreate" => k'[i] = 1)
        BY <3>2, <4>1 DEF CheckCSILimit, CheckSCLimit, TypeOK
      <4> QED
        BY <1>13, <2>1, <3>1, <4>1, <4>2 DEF WithCSI
    <3>3. CASE CreatedCSI(i)
      <4>1. pc[i] = "csiCreate" /\ pc'[i] = "podLimit" /\ k[i] > Len(CsiPlan)
        BY <3>3 DEF CreatedCSI, TypeOK
      <4> QED
        BY <1>13, <2>1, <3>1, <4>1 DEF BeforePod
    <3> QED
      BY <1>14, <3>2, <3>3
  <2>2. CASE j # i
    BY <1>12, <1>14, <2>2 DEF CheckCSILimit, CheckSCLimit, CreatedCSI, TypeOK
  <2> QED
    BY <2>1, <2>2
<1>15. ASSUME NEW i \in Instances, CreateCSI(i)
       PROVE  Old /\ Pools /\ NoPod /\ Once
  <2>0. /\ old' = old /\ UNCHANGED <<stamp, time, gc>>
        /\ (objs \cup late)' \subseteq objs \cup late \cup {Own(i, CsiPlan[k[i]])}
    BY <1>15 DEF CreateCSI, LoseCreate
  <2>1. CASE j = i
    <3>1. pc[i] = "csiCreate" /\ k[i] \in 1..Len(CsiPlan)
      BY <1>1, <1>15 DEF CreateCSI, TypeOK
    <3>2. CsiPlan[k[i]] # "pod"
      BY <3>1, PlanFacts DEF TypeOK, PVCKinds, CSITypes
    <3>3. CASE pc'[i] = "record"
      BY <1>13, <2>0, <2>1, <3>3 DEF BeforePod, WithCSI
    <3>4. CASE /\ Own(i, CsiPlan[k[i]]) \notin objs /\ k' = [k EXCEPT ![i] = @ + 1]
               /\ UNCHANGED pc
      <4>1. Old /\ Pools
        BY <1>4, <1>5, <2>0, <2>1, <3>1, <3>4
      <4>2. NoPod
        BY <1>6, <2>0, <2>1, <3>1, <3>2, <3>4 DEF BeforePod, Own
      <4>3. Once
        <5>1. SUFFICES ASSUME time[i] = "ample"
              PROVE  \A m, n \in 1..k[i] : CsiPlan[m] = CsiPlan[n] => m = n
          BY <1>1, <2>0, <2>1, <3>1, <3>4 DEF Once, Done, TypeOK
        <5>2. \A m, n \in 1..(k[i] - 1) : CsiPlan[m] = CsiPlan[n] => m = n
          BY <3>1, <5>1 DEF Protected, Done, WithCSI
        <5>3. \A m \in 1..(k[i] - 1) : CsiPlan[m] # CsiPlan[k[i]]
          <6>1. \A m \in 1..(k[i] - 1) : CsiPlan[m] \in Made(i)
            BY <3>1 DEF Made
          <6> QED
            BY <3>4, <5>1, <6>1 DEF OwnObjectsSurvive
        <5> QED
          BY <3>1, <5>2, <5>3
      <4> QED
        BY <4>1, <4>2, <4>3
    <3> QED
      BY <1>15, <3>3, <3>4 DEF CreateCSI, TypeOK
  <2>2. CASE j # i
    BY <1>12, <1>15, <2>0, <2>2 DEF CreateCSI, TypeOK
  <2> QED
    BY <2>1, <2>2
<1>16. ASSUME NEW i \in Instances,
              \/ CheckPodLimit(i) \/ CheckCRD(i) \/ CreateNodePool(i) \/ CreatePod(i)
       PROVE  Old /\ Pools /\ NoPod /\ Once
  <2>1. PICK x \in {"pod", "pool"} :
            /\ (objs \cup late)' \subseteq objs \cup late \cup {Own(i, x)}
            /\ x = "pod" => pc[i] = "podCreate"
    BY <1>16 DEF CheckPodLimit, CheckCRD, CreateNodePool, CreatePod, Create, LoseCreate
  <2>2. old' = old /\ UNCHANGED <<stamp, time, gc>>
    BY <1>16 DEF CheckPodLimit, CheckCRD, CreateNodePool, CreatePod, Create, LoseCreate
  <2>3. CASE j = i
    <3>1. /\ pc[i] \in {"podLimit", "crd", "poolCreate", "podCreate"}
          /\ \/ pc'[i] \in {"csiDelete", "poll"}
             \/ pc'[i] \in {"crd", "poolCreate", "podCreate"} /\ pc[i] # "podCreate"
      BY <1>16 DEF CheckPodLimit, CheckCRD, CreateNodePool, CreatePod, Create, TypeOK
    <3> QED
      BY <1>13, <2>1, <2>2, <2>3, <3>1 DEF BeforePod, WithCSI, Own
  <2>4. CASE j # i
    <3>1. pc'[j] = pc[j] /\ k'[j] = k[j]
      BY <1>16, <2>4 DEF CheckPodLimit, CheckCRD, CreateNodePool, CreatePod, Create, TypeOK
    <3> QED
      BY <1>12, <2>1, <2>2, <2>4, <3>1
  <2> QED
    BY <2>3, <2>4
<1>17. ASSUME NEW i \in Instances, PollRunning(i) \/ PollExpires(i) \/ Measure(i) \/ Connect(i)
       PROVE  Old /\ Pools /\ NoPod /\ Once
  <2>1. UNCHANGED <<objs, late, old, stamp, time, gc>>
    BY <1>17 DEF PollRunning, PollExpires, Measure, Connect
  <2>2. CASE j = i
    <3>1. pc[i] \in {"poll", "measure", "connect"} /\ pc'[i] \in {"measure", "connect", "podDelete"}
      BY <1>17 DEF PollRunning, PollExpires, Measure, Connect, TypeOK
    <3> QED
      BY <1>13, <2>1, <2>2, <3>1 DEF BeforePod, WithCSI
  <2>3. CASE j # i
    BY <1>12, <1>17, <2>1, <2>3 DEF PollRunning, PollExpires, Measure, Connect, TypeOK
  <2> QED
    BY <2>2, <2>3
<1>18. ASSUME NEW i \in Instances, DeletePod(i) \/ DeleteNodePool(i) \/ DeleteCSI(i) \/ DeletedCSI(i)
       PROVE  Old /\ Pools /\ NoPod /\ Once
  <2>1. old' \subseteq old /\ objs' \subseteq objs /\ late' = late /\ UNCHANGED <<stamp, time, gc>>
    BY <1>18 DEF DeletePod, DeleteNodePool, DeleteCSI, DeletedCSI, Delete, LoseDelete, Remove
  <2>2. CASE j = i
    <3>1. /\ pc[i] \in {"podDelete", "poolDelete", "csiDelete"}
          /\ pc'[i] \in {"poolDelete", "csiDelete", "record"}
      BY <1>18 DEF DeletePod, DeleteNodePool, DeleteCSI, DeletedCSI, Delete, TypeOK
    <3> QED
      BY <1>13, <2>1, <2>2, <3>1 DEF BeforePod, WithCSI
  <2>3. CASE j # i
    <3>1. pc'[j] = pc[j] /\ k'[j] = k[j]
      BY <1>18, <2>3 DEF DeletePod, DeleteNodePool, DeleteCSI, DeletedCSI, Delete, TypeOK
    <3> QED
      BY <1>12, <2>1, <2>3, <3>1
  <2> QED
    BY <2>2, <2>3
<1>19. ASSUME NEW i \in Instances, Record(i) \/ Crash(i)
       PROVE  Old /\ Pools /\ NoPod /\ Once
  <2>1. Reset(i)
    BY <1>19 DEF Record, Crash
  <2>2. CASE j = i
    BY <2>1, <2>2 DEF Reset, TypeOK, Old, Pools, NoPod, Once, BeforePod, WithCSI
  <2>3. CASE j # i
    <3>1. /\ pc'[j] = pc[j] /\ stamp'[j] = stamp[j] /\ time'[j] = time[j] /\ k'[j] = k[j]
          /\ todo'[j] = todo[j] /\ stage'[j] = stage[j]
      BY <2>1, <2>3 DEF Reset, TypeOK
    <3>2. old' = old /\ \E x : (objs \cup late)' \subseteq objs \cup late \cup {Own(i, x)}
      BY <1>19 DEF Record, Crash, LoseCreate
    <3> QED
      BY <1>12, <2>3, <3>1, <3>2
  <2> QED
    BY <2>2, <2>3
<1>20. ASSUME NEW o \in Objects, GrowOld(o) \/ Gone(o) \/ Land(o)
       PROVE  Old /\ Pools /\ NoPod /\ Once
  <2>1. (objs \cup late)' \subseteq objs \cup late /\ UNCHANGED <<pc, time, stamp, stage, todo, k>>
    BY <1>20 DEF GrowOld, Gone, Land
  <2>2. Old
    BY <1>4, <1>20 DEF GrowOld, Gone, Land, Old, Protected
  <2>3. NoPod
    BY <1>6, <2>1
  <2> QED
    BY <1>5, <1>8, <2>1, <2>2, <2>3
<1> QED
  <2>1. \/ \E i \in Instances : RunStep(i) \/ GcList(i) \/ Expire(i) \/ Crash(i)
        \/ \E o \in Objects : GrowOld(o) \/ Gone(o) \/ Land(o)
    BY <1>2 DEF Next
  <2>2. ASSUME NEW i \in Instances, RunStep(i) PROVE Old /\ Pools /\ NoPod /\ Once
    BY <2>2, <1>9, <1>10, <1>11, <1>14, <1>15, <1>16, <1>17, <1>18, <1>19, Zenon DEF RunStep
  <2> QED
    BY <2>1, <2>2, <1>9, <1>19, <1>20

\* No run has an object at first.
LEMMA InitProtected == Init => Protected /\ OwnObjectsSurvive
BY DEF Init, Protected, OwnObjectsSurvive, BeforePod, WithCSI, Made

\* No garbage collection, of its own instance or another, of its own name or
\* another, deletes the Pod, a claim or the StorageClass of a run whose time is
\* ample. With the three that keep them safe this is inductive.
THEOREM Survival == Spec => []OwnObjectsSurvive
<1>1. Init => TypeOK /\ Control /\ Protected /\ OwnObjectsSurvive
  BY InitInv, InitProtected
<1>2. TypeOK /\ Control /\ Protected /\ OwnObjectsSurvive /\ [Next]_vars
        => TypeOK' /\ Control' /\ Protected' /\ OwnObjectsSurvive'
  BY NextType, NextControl, NextProtected, NextSurvive
<1> QED
  BY <1>1, <1>2, PTL DEF Spec

-----------------------------------------------------------------------------
(* A run that went well leaves nothing behind.                             *)

\* The kinds of the objects that a run which went well may have in the cluster.
Left(i) ==
    CASE pc[i] = "csiCreate" -> {CsiPlan[n] : n \in 1..(k[i] - 1)}
      [] pc[i] \in {"podLimit", "crd", "poolCreate"} -> PlanKinds
      [] pc[i] \in {"podCreate", "poolDelete"} ->
            PlanKinds \cup {x \in {"pool"} : EnableNodeProvisioningTest}
      [] pc[i] \in {"poll", "measure", "connect", "podDelete"} ->
            PlanKinds \cup {"pod"} \cup {x \in {"pool"} : EnableNodeProvisioningTest}
      [] pc[i] = "csiDelete" -> {CsiPlan[n] : n \in k[i]..Len(CsiPlan)}
      [] OTHER -> {}

\* A run that went well so far has no object but those, and none to come.
Accounted ==
    \A i \in Instances : ~failed[i] /\ stamp[i] \in Stamps =>
        /\ \A o \in late : o.stamp # stamp[i]
        /\ \A o \in objs \ leaving : o.stamp = stamp[i] => o.kind \in Left(i)

\* A step adds nothing to what a run that goes well must account for.
LEMMA NextAccounted == TypeOK /\ Control /\ Accounted /\ [Next]_vars => Accounted'
<1> SUFFICES ASSUME TypeOK, Control, Accounted, [Next]_vars,
                    NEW j \in Instances, ~failed'[j], stamp'[j] \in Stamps
             PROVE  /\ \A o \in late' : o.stamp # stamp'[j]
                    /\ \A o \in objs' \ leaving' : o.stamp = stamp'[j] => o.kind \in Left(j)'
  BY DEF Accounted
<1>1. CsiPlan' = CsiPlan /\ enabledCSIs' = enabledCSIs /\ Len(CsiPlan) \in Nat
  BY PlanFacts DEF TypeOK, Next, vars, CsiPlan
<1>2. PlanKinds' = PlanKinds
  BY <1>1 DEF PlanKinds
<1> DEFINE Goal == /\ \A o \in late' : o.stamp # stamp'[j]
                   /\ \A o \in objs' \ leaving' : o.stamp = stamp'[j] => o.kind \in Left(j)'
\* No object of the run comes or is in flight, and it is allowed as many.
<1>3. ASSUME ~failed[j], stamp'[j] = stamp[j], Left(j) \subseteq Left(j)',
             \A o \in late' \ late : o.stamp # stamp[j],
             \A o \in (objs' \ leaving') \ (objs \ leaving) :
                o.stamp = stamp[j] => o.kind \in Left(j)'
      PROVE  Goal
  BY <1>3 DEF Accounted
\* The run's own object goes.
<1>4. ASSUME ~failed[j], stamp'[j] = stamp[j], late' = late, NEW x,
             objs' \ leaving' \subseteq (objs \ leaving) \ {Own(j, x)},
             Left(j) \subseteq Left(j)' \cup {x}
      PROVE  Goal
  <2>1. ASSUME NEW o \in objs' \ leaving', o.stamp = stamp'[j] PROVE o.kind \in Left(j)'
    <3>1. o \in objs \ leaving /\ o.kind \in Left(j) /\ o # Own(j, x)
      BY <1>4, <2>1 DEF Accounted
    <3>2. o = [kind |-> o.kind, stamp |-> o.stamp]
      BY <3>1 DEF TypeOK, Objects
    <3>3. o.kind # x
      BY <1>4, <2>1, <3>1, <3>2 DEF Own
    <3> QED
      BY <1>4, <3>1, <3>3
  <2> QED
    BY <1>4, <2>1 DEF Accounted
<1>5. ASSUME pc'[j] = pc[j], k'[j] = k[j] PROVE Left(j)' = Left(j)
  BY <1>1, <1>2, <1>5 DEF Left
<1>6. SUFFICES ASSUME ~UNCHANGED vars PROVE Goal
  <2>1. UNCHANGED vars => Left(j)' = Left(j)
    BY <1>5 DEF vars, state
  <2> QED
    BY <1>6, <2>1 DEF vars, state, Accounted
<1> HIDE DEF Goal
<1> USE DEF Goto, Fail, Return, ReturnVia, cluster, gc
\* A step of another run.
<1>7. ASSUME NEW i \in Instances, j # i, NEW x,
             pc'[j] = pc[j], k'[j] = k[j], stamp'[j] = stamp[j], failed'[j] = failed[j],
             late' \subseteq late \cup {Own(i, x)},
             objs' \ leaving' \subseteq (objs \ leaving) \cup {Own(i, x)}
      PROVE  Goal
  <2>1. stamp[i] # stamp[j]
    BY <1>7, StampsAssumption DEF Control
  <2> QED
    BY <1>3, <1>5, <1>7, <2>1 DEF Own
<1>8. ASSUME NEW i \in Instances, StartRun(i) \/ GcList(i) \/ Expire(i) PROVE Goal
  <2>1. UNCHANGED <<late, objs, leaving, stamp>>
    BY <1>8 DEF StartRun, GcList, Expire
  <2>2. CASE j = i
    <3>1. CASE Expire(i)
      BY <1>3, <1>5, <2>1, <2>2, <3>1 DEF Expire, TypeOK
    <3>2. CASE StartRun(i) \/ GcList(i)
      BY <2>1, <2>2, <3>2, StampsAssumption DEF StartRun, GcList, Control, Collecting
    <3> QED
      BY <1>8, <3>1, <3>2
  <2>3. CASE j # i
    BY <1>7, <1>8, <2>1, <2>3 DEF StartRun, GcList, Expire, TypeOK
  <2> QED
    BY <2>2, <2>3
<1>9. ASSUME NEW i \in Instances, GcListFails(i) \/ GcDone(i) PROVE Goal
  <2>1. NextStage(i) /\ UNCHANGED <<objs, leaving, late, k>>
    BY <1>9 DEF GcListFails, GcDone
  <2>2. CASE j = i
    <3>1. Fresh(stamp'[i])
      <4>1. stamp[i] \notin Stamps
        BY <1>9, StampsAssumption DEF GcListFails, GcDone, Control, Collecting
      <4> QED
        BY <2>1, <2>2, <4>1 DEF NextStage, TypeOK
    <3> QED
      BY <2>1, <2>2, <3>1 DEF Fresh, Goal
  <2>3. CASE j # i
    BY <1>7, <1>9, <2>1, <2>3 DEF GcListFails, GcDone, NextStage, TypeOK
  <2> QED
    BY <2>2, <2>3
<1>10. ASSUME NEW i \in Instances, NEW o \in Objects, GcDelete(i, o) PROVE Goal
  <2>1. late' = late /\ objs' \ leaving' \subseteq objs \ leaving /\ UNCHANGED <<pc, k, stamp>>
    BY <1>10 DEF GcDelete, LoseDelete, Remove
  <2>2. ~failed[j]
    BY <1>10 DEF GcDelete, TypeOK
  <2> QED
    BY <1>3, <1>5, <2>1, <2>2
<1> USE DEF LimitListFails, LimitListOk
<1>11. ASSUME NEW i \in Instances,
              \/ CheckCSILimit(i) \/ CheckSCLimit(i) \/ CreatedCSI(i) \/ CheckPodLimit(i)
              \/ CheckCRD(i)
       PROVE  Goal
  <2>1. UNCHANGED <<objs, leaving, late, stamp>>
    BY <1>11 DEF CheckCSILimit, CheckSCLimit, CreatedCSI, CheckPodLimit, CheckCRD
  <2>2. CASE j = i
    <3>1. failed'[i] = failed[i]
      BY <1>11, <2>2 DEF CheckCSILimit, CheckSCLimit, CreatedCSI, CheckPodLimit, CheckCRD, TypeOK
    <3>2. CASE CheckCSILimit(i) \/ CheckSCLimit(i)
      <4>1. Left(i) = {}
        BY <3>2 DEF CheckCSILimit, CheckSCLimit, Left
      <4> QED
        BY <1>3, <2>1, <2>2, <3>1, <4>1
    <3>3. CASE CreatedCSI(i)
      <4>1. pc[i] = "csiCreate" /\ k[i] = Len(CsiPlan) + 1 /\ pc'[i] = "podLimit"
        BY <1>1, <3>3 DEF CreatedCSI, TypeOK
      <4>2. Left(i) = PlanKinds /\ Left(i)' = PlanKinds
        BY <1>1, <1>2, <4>1 DEF Left, PlanKinds
      <4> QED
        BY <1>3, <2>1, <2>2, <3>1, <4>2
    <3>4. CASE CheckPodLimit(i) \/ CheckCRD(i)
      <4>1. /\ pc[i] \in {"podLimit", "crd"}
            /\ \/ pc'[i] \in {"crd", "poolCreate", "podCreate"}
               \/ pc'[i] = "csiDelete" /\ k'[i] = 1
        BY <3>4 DEF CheckPodLimit, CheckCRD, TypeOK
      <4>2. Left(i) = PlanKinds /\ PlanKinds \subseteq Left(i)'
        BY <1>1, <1>2, <4>1 DEF Left, PlanKinds
      <4> QED
        BY <1>3, <2>1, <2>2, <3>1, <4>2
    <3> QED
      BY <1>11, <3>2, <3>3, <3>4
  <2>3. CASE j # i
    BY <1>7, <1>11, <2>1, <2>3
       DEF CheckCSILimit, CheckSCLimit, CreatedCSI, CheckPodLimit, CheckCRD, TypeOK
  <2> QED
    BY <2>2, <2>3
<1>12. ASSUME NEW i \in Instances, CreateCSI(i) PROVE Goal
  <2>1. /\ UNCHANGED <<stamp, leaving>>
        /\ late' \subseteq late \cup {Own(i, CsiPlan[k[i]])}
        /\ objs' \subseteq objs \cup {Own(i, CsiPlan[k[i]])}
    BY <1>12 DEF CreateCSI, LoseCreate
  <2>2. CASE j = i
    <3>1. pc[i] = "csiCreate" /\ k[i] \in 1..Len(CsiPlan)
      BY <1>1, <1>12 DEF CreateCSI, TypeOK
    <3>2. /\ pc'[i] = "csiCreate" /\ k'[i] = k[i] + 1
          /\ late' = late /\ failed'[i] = failed[i]
      BY <1>12, <2>2, <3>1 DEF CreateCSI, TypeOK
    <3>3. Left(i) \subseteq Left(i)' /\ CsiPlan[k[i]] \in Left(i)'
      BY <1>1, <3>1, <3>2 DEF Left
    <3> QED
      BY <1>3, <2>1, <2>2, <3>2, <3>3 DEF Own
  <2>3. CASE j # i
    <3>1. pc'[j] = pc[j] /\ k'[j] = k[j] /\ failed'[j] = failed[j]
      BY <1>12, <2>3 DEF CreateCSI, TypeOK
    <3>2. objs' \ leaving' \subseteq (objs \ leaving) \cup {Own(i, CsiPlan[k[i]])}
      BY <2>1
    <3> QED
      BY <1>7, <2>1, <2>3, <3>1, <3>2
  <2> QED
    BY <2>2, <2>3
<1>13. ASSUME NEW i \in Instances, CreateNodePool(i) \/ CreatePod(i) PROVE Goal
  <2>1. PICK x \in {"pool", "pod"}, next \in {"podCreate", "poll"}, r \in Results :
            /\ Create(i, x, next, r)
            /\ \/ x = "pool" /\ pc[i] = "poolCreate" /\ next = "podCreate"
               \/ x = "pod" /\ pc[i] = "podCreate" /\ next = "poll"
    BY <1>13 DEF CreateNodePool, CreatePod, Results
  <2>2. /\ UNCHANGED <<stamp, leaving>>
        /\ late' \subseteq late \cup {Own(i, x)}
        /\ objs' \subseteq objs \cup {Own(i, x)}
    BY <2>1 DEF Create, LoseCreate
  <2>3. CASE j = i
    <3>1. pc'[i] = next /\ late' = late /\ failed'[i] = failed[i]
      BY <2>1, <2>3 DEF Create, TypeOK
    <3>2. pc[i] = "poolCreate" => EnableNodeProvisioningTest
      BY DEF Control
    <3>3. Left(i) \subseteq Left(i)' /\ x \in Left(i)'
      BY <1>2, <2>1, <3>1, <3>2 DEF Left
    <3> QED
      BY <1>3, <2>2, <2>3, <3>1, <3>3 DEF Own
  <2>4. CASE j # i
    BY <1>7, <2>1, <2>2, <2>4 DEF Create, TypeOK
  <2> QED
    BY <2>3, <2>4
<1>14. ASSUME NEW i \in Instances, PollRunning(i) \/ PollExpires(i) \/ Measure(i) \/ Connect(i)
       PROVE  Goal
  <2>1. UNCHANGED <<objs, leaving, late, stamp>>
    BY <1>14 DEF PollRunning, PollExpires, Measure, Connect
  <2>2. CASE j = i
    <3>1. /\ failed'[i] = failed[i]
          /\ pc[i] \in {"poll", "measure", "connect"}
          /\ pc'[i] \in {"measure", "connect", "podDelete"}
      BY <1>14, <2>2 DEF PollRunning, PollExpires, Measure, Connect, TypeOK
    <3>2. Left(i)' = Left(i)
      BY <1>2, <3>1 DEF Left
    <3> QED
      BY <1>3, <2>1, <2>2, <3>1, <3>2
  <2>3. CASE j # i
    BY <1>7, <1>14, <2>1, <2>3 DEF PollRunning, PollExpires, Measure, Connect, TypeOK
  <2> QED
    BY <2>2, <2>3
\* What a deletion that is served takes away.
<1>15. ASSUME NEW x, Remove(x)
       PROVE  late' = late /\ objs' \ leaving' \subseteq (objs \ leaving) \ {x}
  BY <1>15 DEF Remove
<1>16. ASSUME NEW i \in Instances, NEW x, LoseDelete(i, x) \/ Remove(x), j # i,
              pc'[j] = pc[j], k'[j] = k[j], stamp'[j] = stamp[j], failed'[j] = failed[j]
       PROVE  Goal
  <2>1. late' = late /\ objs' \ leaving' \subseteq objs \ leaving
    BY <1>15, <1>16 DEF LoseDelete
  <2> QED
    BY <1>7, <1>16, <2>1
<1>17. ASSUME NEW i \in Instances, DeletePod(i) \/ DeleteNodePool(i) PROVE Goal
  <2>1. PICK x \in {"pod", "pool"} :
            /\ x = "pod" => /\ pc[i] = "podDelete"
                            /\ pc'[i] = IF EnableNodeProvisioningTest THEN "poolDelete"
                                                                      ELSE "csiDelete"
            /\ x = "pool" => pc[i] = "poolDelete" /\ pc'[i] = "csiDelete"
            /\ LoseDelete(i, Own(i, x)) \/ Remove(Own(i, x))
            /\ ~failed'[i] => ~failed[i] /\ Remove(Own(i, x))
            /\ UNCHANGED <<k, stamp>>
    BY <1>17 DEF DeletePod, DeleteNodePool, Delete, TypeOK
  <2>2. CASE j = i
    <3>1. k[i] = 1
      BY <2>1 DEF Control
    <3>2. Left(i) \subseteq Left(i)' \cup {x}
      <4>1. pc'[i] = "csiDelete" => Left(i)' = PlanKinds
        BY <1>1, <1>2, <2>1, <3>1 DEF Left, PlanKinds
      <4>2. CASE x = "pod"
        BY <1>2, <2>1, <4>1, <4>2 DEF Left
      <4>3. CASE x = "pool"
        BY <1>2, <2>1, <4>1, <4>3 DEF Left
      <4> QED
        BY <4>2, <4>3
    <3> QED
      BY <1>4, <1>15, <2>1, <2>2, <3>2
  <2>3. CASE j # i
    BY <1>16, <1>17, <2>1, <2>3 DEF DeletePod, DeleteNodePool, Delete, TypeOK
  <2> QED
    BY <2>2, <2>3
<1>18. ASSUME NEW i \in Instances, DeleteCSI(i) PROVE Goal
  <2>1. CASE j = i
    <3>1. pc[i] = "csiDelete" /\ k[i] \in 1..Len(CsiPlan)
      BY <1>1, <1>18 DEF DeleteCSI, TypeOK
    <3>2. /\ Remove(Own(i, CsiPlan[k[i]])) /\ k'[i] = k[i] + 1
          /\ UNCHANGED <<pc, failed, stamp>>
      BY <1>18, <2>1, <3>1 DEF DeleteCSI, TypeOK
    <3>3. Left(i) \subseteq Left(i)' \cup {CsiPlan[k[i]]}
      <4>1. \A n \in k[i]..Len(CsiPlan) : n = k[i] \/ n \in (k[i] + 1)..Len(CsiPlan)
        BY <3>1
      <4> QED
        BY <1>1, <3>1, <3>2, <4>1 DEF Left
    <3> QED
      BY <1>4, <1>15, <2>1, <3>2, <3>3
  <2>2. CASE j # i
    BY <1>16, <1>18, <2>2 DEF DeleteCSI, TypeOK
  <2> QED
    BY <2>1, <2>2
<1>19. ASSUME NEW i \in Instances, DeletedCSI(i) PROVE Goal
  <2>1. CASE j = i
    <3>1. Left(i) = {}
      BY <1>1, <1>19 DEF DeletedCSI, Left, TypeOK
    <3> QED
      BY <1>3, <1>19, <2>1, <3>1 DEF DeletedCSI
  <2>2. CASE j # i
    BY <1>7, <1>19, <2>2 DEF DeletedCSI, TypeOK
  <2> QED
    BY <2>1, <2>2
<1>20. ASSUME NEW i \in Instances, Record(i) \/ Crash(i) PROVE Goal
  <2>1. Reset(i)
    BY <1>20 DEF Record, Crash
  <2>2. j # i
    BY <2>1, StampsAssumption DEF Reset, TypeOK
  <2>3. \E x : /\ late' \subseteq late \cup {Own(i, x)}
               /\ objs' \ leaving' \subseteq (objs \ leaving) \cup {Own(i, x)}
    BY <1>20 DEF Record, Crash, LoseCreate
  <2> QED
    BY <1>7, <2>1, <2>2, <2>3 DEF Reset, TypeOK
<1>21. ASSUME NEW o \in Objects, GrowOld(o) \/ Gone(o) \/ Land(o) PROVE Goal
  <2>1. UNCHANGED <<pc, k, stamp, failed>> /\ late' \subseteq late
    BY <1>21 DEF GrowOld, Gone, Land
  <2>2. objs' \ leaving' \subseteq (objs \ leaving) \cup late
    BY <1>21 DEF GrowOld, Gone, Land
  <2> QED
    BY <1>3, <1>5, <2>1, <2>2 DEF Accounted
<1> QED
  <2>1. \/ \E i \in Instances : RunStep(i) \/ GcList(i) \/ Expire(i) \/ Crash(i)
        \/ \E o \in Objects : GrowOld(o) \/ Gone(o) \/ Land(o)
    BY <1>6 DEF Next
  <2>2. ASSUME NEW i \in Instances, RunStep(i) PROVE Goal
    BY <2>2, <1>8, <1>9, <1>10, <1>11, <1>12, <1>13, <1>14, <1>17, <1>18, <1>19, <1>20, Zenon
       DEF RunStep
  <2> QED
    BY <2>1, <2>2, <1>8, <1>20, <1>21

\* A run none of whose calls failed and whose context did not expire leaves
\* nothing behind, whichever of check's returns it took, as the deferred calls
\* registered by then delete what it created by then.
THEOREM CleanRuns == Spec => []CleanRunLeavesNothing
<1>1. Init => TypeOK /\ Control /\ Accounted
  BY InitInv, StampsAssumption DEF Init, Accounted
<1>2. TypeOK /\ Control /\ Accounted /\ [Next]_vars => TypeOK' /\ Control' /\ Accounted'
  BY NextType, NextControl, NextAccounted
<1>3. TypeOK /\ Accounted => CleanRunLeavesNothing
  <2> SUFFICES ASSUME TypeOK, Accounted, NEW i \in Instances, pc[i] = "record", ~failed[i],
                      NEW o \in (objs \ leaving) \cup late, o.stamp = stamp[i]
               PROVE  FALSE
    BY DEF CleanRunLeavesNothing
  <2>1. o.stamp \in Stamps
    BY DEF TypeOK, Objects
  <2> QED
    BY <2>1 DEF Accounted, Left
<1> QED
  BY <1>1, <1>2, <1>3, PTL DEF Spec

-----------------------------------------------------------------------------
(* The limits bound what is stored.                                        *)

\* The kinds of the objects that i has passed the limit check for and may create.
Due(i) ==
    CASE pc[i] = "scLimit" -> PlanKinds \cap PVCKinds
      [] pc[i] = "csiCreate" -> PlanKinds
      [] pc[i] \in {"crd", "poolCreate", "podCreate"} -> {"pod"}
      [] OTHER -> {}

\* An object is there, in flight or due.
Reserved(o) ==
    \/ o \in objs
    \/ o \in late
    \/ \E i \in Instances : \E x \in Due(i) : o = Own(i, x)

\* A label's objects of some kinds for which that is so.
Claimed(l, kinds) == {o \in Objects : Reserved(o) /\ o.kind \in kinds /\ owner[o.stamp] = l}

\* The limits bound those, too: only a limit check adds to them.
Bounded ==
    \A l \in {Label[i] : i \in Instances} :
        LET share == Cardinality(Sharing(l))
            csis == Len(enabledCSIs)
        IN  /\ Cardinality(Claimed(l, {"pod"})) < MaxSyntheticPods + share + MaxLate
            /\ Cardinality(Claimed(l, {"sc"})) < MaxSyntheticPods + share + MaxLate
            /\ csis > 0 => Cardinality(Claimed(l, PVCKinds))
                             < (MaxSyntheticPods + share) * csis + MaxLate

\* What a label claims is stored, in flight, or due to one of its instances.
LEMMA ClaimedBound ==
    ASSUME TypeOK, Control, NEW l, NEW kinds, NEW D, IsFiniteSet(D),
           \A i \in Sharing(l) : \A x \in Due(i) : x \in kinds => Own(i, x) \in D
    PROVE  Cardinality(Claimed(l, kinds))
                <= Cardinality(Stored(l, kinds)) + MaxLate + Cardinality(D)
<1> DEFINE S == Stored(l, kinds)
<1>1. IsFiniteSet(S) /\ IsFiniteSet(late)
  BY ObjectsFinite, FS_Subset DEF Stored, TypeOK
<1>2. Claimed(l, kinds) \subseteq (S \cup late) \cup D
  <2> SUFFICES ASSUME NEW o \in Claimed(l, kinds), o \notin objs, o \notin late PROVE o \in D
    BY DEF Claimed, Stored
  <2>1. PICK i \in Instances : \E x \in Due(i) : o = Own(i, x)
    BY DEF Claimed, Reserved
  <2>2. Label[i] = l
    BY <2>1 DEF Claimed, Objects, Own, Control
  <2> QED
    BY <2>1, <2>2 DEF Sharing, Claimed, Own
<1> HIDE DEF S
<1>3. /\ IsFiniteSet((S \cup late) \cup D)
      /\ Cardinality((S \cup late) \cup D)
            <= Cardinality(S) + Cardinality(late) + Cardinality(D)
      /\ Cardinality((S \cup late) \cup D) \in Nat /\ Cardinality(S) \in Nat
      /\ Cardinality(late) \in Nat /\ Cardinality(D) \in Nat
  <2>1. /\ IsFiniteSet(S \cup late)
        /\ Cardinality(S) \in Nat /\ Cardinality(late) \in Nat
        /\ Cardinality(S \cup late) \in Nat
        /\ Cardinality(S \cup late) <= Cardinality(S) + Cardinality(late)
    BY <1>1, UnionBound
  <2>2. /\ IsFiniteSet((S \cup late) \cup D)
        /\ Cardinality(D) \in Nat
        /\ Cardinality((S \cup late) \cup D) \in Nat
        /\ Cardinality((S \cup late) \cup D) <= Cardinality(S \cup late) + Cardinality(D)
    BY <2>1, UnionBound
  <2> HIDE DEF S
  <2> QED
    BY <2>1, <2>2
<1>4. /\ Cardinality(Claimed(l, kinds)) \in Nat
      /\ Cardinality(Claimed(l, kinds)) <= Cardinality((S \cup late) \cup D)
  BY <1>2, <1>3, FS_Subset, FS_CardinalityType
<1> QED
  BY <1>3, <1>4, EnvironmentAssumption DEF TypeOK, S

\* The kinds that are due, and how many objects they can be.
LEMMA DueFacts ==
    ASSUME TypeOK, NEW i \in Instances, NEW x \in Due(i)
    PROVE  /\ x \in PVCKinds \cup {"sc", "pod"}
           /\ x \in PVCKinds => \E n \in 1..Len(enabledCSIs) : x = enabledCSIs[n]
<1>1. /\ enabledCSIs \in Seq(CSITypes) /\ CsiPlan \in Seq(Parts(enabledCSIs))
      /\ \A n \in 1..Len(CsiPlan) : CsiPlan[n] \in PVCKinds \cup {"sc"}
  BY PlanFacts DEF TypeOK
<1>2. x = "pod" \/ x \in PlanKinds
  BY DEF Due
<1>3. ASSUME x \in PlanKinds PROVE x \in Parts(enabledCSIs)
  BY <1>1, <1>3 DEF PlanKinds
<1> QED
  BY <1>1, <1>2, <1>3 DEF Parts, PlanKinds, PVCKinds, CSITypes

\* So the limits, once a check has found fewer objects than it allows, hold for
\* what is claimed.
LEMMA SingleBound ==
    ASSUME TypeOK, Control, NEW l, NEW kind \in {"pod", "sc"},
           Cardinality(Stored(l, {kind})) < MaxSyntheticPods
    PROVE  Cardinality(Claimed(l, {kind})) < MaxSyntheticPods + Cardinality(Sharing(l)) + MaxLate
<1> DEFINE D == {Own(i, kind) : i \in Sharing(l)}
           f == [i \in Sharing(l) |-> Own(i, kind)]
<1>1. IsFiniteSet(Sharing(l)) /\ Cardinality(Sharing(l)) \in Nat
  BY InstancesAssumption, FS_Subset, FS_CardinalityType DEF Sharing
<1>2. \A y \in D : \E x \in Sharing(l) : y = f[x]
  OBVIOUS
<1>3. \A i \in Sharing(l) : \A x \in Due(i) : x \in {kind} => Own(i, x) \in D
  OBVIOUS
<1>4. IsFiniteSet(D) /\ Cardinality(D) <= Cardinality(Sharing(l))
  <2> HIDE DEF D, f
  <2> QED
    BY <1>1, <1>2, ImageBound
<1> HIDE DEF D
<1>5. Cardinality(Claimed(l, {kind})) <= Cardinality(Stored(l, {kind})) + MaxLate + Cardinality(D)
  BY <1>3, <1>4, ClaimedBound
<1>6. IsFiniteSet(Stored(l, {kind})) /\ IsFiniteSet(Claimed(l, {kind}))
  BY ObjectsFinite, FS_Subset DEF Stored, Claimed, TypeOK
<1> QED
  BY <1>1, <1>4, <1>5, <1>6, FS_CardinalityType, ConfigAssumption, EnvironmentAssumption

\* The limit of the claims is for each of the CSI types.
LEMMA ClaimsBound ==
    ASSUME TypeOK, Control, NEW l,
           Cardinality(Stored(l, PVCKinds)) < MaxSyntheticPods * Len(enabledCSIs)
    PROVE  Cardinality(Claimed(l, PVCKinds))
                < (MaxSyntheticPods + Cardinality(Sharing(l))) * Len(enabledCSIs) + MaxLate
<1> DEFINE N == 1..Len(enabledCSIs)
           P == Sharing(l) \X N
           f == [p \in P |-> Own(p[1], enabledCSIs[p[2]])]
           D == {f[p] : p \in P}
<1>0. Len(enabledCSIs) \in Nat
  BY PlanFacts DEF TypeOK
<1>1. IsFiniteSet(Sharing(l)) /\ Cardinality(Sharing(l)) \in Nat
  BY InstancesAssumption, FS_Subset, FS_CardinalityType DEF Sharing
<1>2. IsFiniteSet(P) /\ Cardinality(P) = Cardinality(Sharing(l)) * Len(enabledCSIs)
  <2>1. IsFiniteSet(N) /\ Cardinality(N) = Len(enabledCSIs)
    BY <1>0, FirstNaturals
  <2> HIDE DEF N
  <2> QED
    BY <1>1, <2>1, FS_Product
<1>3. ASSUME NEW i \in Sharing(l), NEW x \in Due(i), x \in PVCKinds PROVE Own(i, x) \in D
  <2>1. PICK n \in N : x = enabledCSIs[n]
    BY <1>3, DueFacts DEF Sharing
  <2>2. <<i, n>> \in P /\ f[<<i, n>>] = Own(i, x)
    BY <2>1
  <2> QED
    BY <2>2
<1>4. IsFiniteSet(D) /\ Cardinality(D) <= Cardinality(P)
  <2>1. \A y \in D : \E p \in P : y = f[p]
    OBVIOUS
  <2> HIDE DEF D, f, P
  <2> QED
    BY <1>2, <2>1, ImageBound
<1> HIDE DEF D, P, f, N
<1>5. Cardinality(Claimed(l, PVCKinds)) <= Cardinality(Stored(l, PVCKinds)) + MaxLate + Cardinality(D)
  BY <1>3, <1>4, ClaimedBound
<1>6. IsFiniteSet(Stored(l, PVCKinds)) /\ IsFiniteSet(Claimed(l, PVCKinds))
  BY ObjectsFinite, FS_Subset DEF Stored, Claimed, TypeOK
<1>7. \A a, b, c \in Nat : (a + b) * c = a * c + b * c /\ a * c \in Nat /\ b * c \in Nat
  OBVIOUS
<1> QED
  BY <1>0, <1>1, <1>2, <1>4, <1>5, <1>6, <1>7, FS_CardinalityType, ConfigAssumption,
     EnvironmentAssumption

\* A limit check of a kind like o's, for o's label, that found room.
Room(i, o) ==
    /\ owner[o.stamp] = Label[i]
    /\ \/ /\ o.kind \in PVCKinds
          /\ Cardinality(Labelled(i, "pvc")) < MaxSyntheticPods * Len(enabledCSIs)
       \/ o.kind = "sc" /\ Cardinality(Labelled(i, "sc")) < MaxSyntheticPods
       \/ o.kind = "pod" /\ Cardinality(Labelled(i, "pod")) < MaxSyntheticPods

\* A list is finite.
LEMMA LabelledFinite ==
    ASSUME TypeOK
    PROVE  \A i, s : IsFiniteSet(Labelled(i, s))
BY ObjectsFinite, FS_Subset DEF Labelled, TypeOK

\* NodePools have no limit. What a step adds to the other objects that are there, in
\* flight or due, it adds because a limit check found room, and such a step does
\* nothing to the cluster.
LEMMA NextReserved ==
    ASSUME TypeOK, Control, [Next]_vars, NEW o \in Objects, o.kind # "pool", Reserved(o)'
    PROVE  \/ Reserved(o) /\ owner'[o.stamp] = owner[o.stamp]
           \/ UNCHANGED <<objs, owner>> /\ \E i \in Instances : Room(i, o)
<1> DEFINE Kept == Reserved(o) /\ owner'[o.stamp] = owner[o.stamp]
           Added == UNCHANGED <<objs, owner>> /\ \E i \in Instances : Room(i, o)
<1>1. /\ CsiPlan' = CsiPlan /\ enabledCSIs' = enabledCSIs
      /\ enabledCSIs \in Seq(CSITypes) /\ CsiPlan \in Seq(Parts(enabledCSIs))
      /\ \A n \in 1..Len(CsiPlan) : CsiPlan[n] \in PVCKinds \cup {"sc"}
  BY PlanFacts DEF TypeOK, Next, vars, CsiPlan
<1>2. PlanKinds' = PlanKinds
  BY <1>1 DEF PlanKinds
<1>3. ASSUME NEW j \in Instances, pc'[j] = pc[j] PROVE Due(j)' = Due(j)
  BY <1>2, <1>3 DEF Due
\* A step that takes or keeps what is due.
<1>4. ASSUME owner'[o.stamp] = owner[o.stamp],
             o \in objs' \/ o \in late' => Reserved(o),
             \A j \in Instances : Due(j)' # {} => stamp'[j] = stamp[j] /\ Due(j)' \subseteq Due(j)
      PROVE  Kept
  <2>1. CASE o \in objs' \/ o \in late'
    BY <1>4, <2>1
  <2>2. ASSUME NEW j \in Instances, NEW x \in Due(j)', o = Own(j, x)' PROVE Reserved(o)
    <3>1. x \in Due(j) /\ o = Own(j, x)
      BY <1>4, <2>2 DEF Own
    <3> QED
      BY <3>1 DEF Reserved
  <2>3. \/ o \in objs' \/ o \in late'
        \/ \E j \in Instances : \E x \in Due(j)' : o = Own(j, x)'
    BY DEF Reserved
  <2> QED
    BY <1>4, <2>1, <2>2, <2>3
<1> HIDE DEF Kept
\* One of i, for the others.
<1>5. ASSUME NEW i \in Instances, owner'[o.stamp] = owner[o.stamp],
             o \in objs' \/ o \in late' => Reserved(o),
             \A j \in Instances \ {i} : pc'[j] = pc[j] /\ stamp'[j] = stamp[j],
             Due(i)' # {} => stamp'[i] = stamp[i] /\ Due(i)' \subseteq Due(i)
      PROVE  Kept
  <2>1. \A j \in Instances \ {i} : Due(j)' = Due(j)
    BY <1>3, <1>5
  <2> QED
    BY <1>4, <1>5, <2>1
<1>6. SUFFICES ASSUME ~UNCHANGED vars PROVE Kept \/ Added
  <2>1. UNCHANGED vars => Kept
    BY <1>3, <1>4 DEF vars, state, Reserved
  <2> QED
    BY <1>6, <2>1 DEF Kept
<1> HIDE DEF Added
<1> USE DEF Goto, Fail, Return, ReturnVia, cluster, gc
<1>7. ASSUME NEW i \in Instances, StartRun(i) \/ GcList(i) \/ Expire(i) PROVE Kept
  <2>1. UNCHANGED <<objs, owner, late, stamp>>
    BY <1>7 DEF StartRun, GcList, Expire
  <2>2. Expire(i) \/ (pc'[i] \in {"gcList", "gcDelete"} /\ Due(i)' = {})
    BY <1>7 DEF StartRun, GcList, Due, TypeOK
  <2>3. Expire(i) => Due(i)' = Due(i)
    BY <1>3 DEF Expire
  <2>4. \A j \in Instances \ {i} : pc'[j] = pc[j]
    BY <1>7 DEF StartRun, GcList, Expire, TypeOK
  <2> QED
    BY <1>5, <2>1, <2>2, <2>3, <2>4 DEF Reserved
<1>8. ASSUME NEW i \in Instances, GcListFails(i) \/ GcDone(i) PROVE Kept
  <2>1. NextStage(i) /\ UNCHANGED <<objs, late>>
    BY <1>8 DEF GcListFails, GcDone
  <2>2. Due(i)' = {}
    <3>1. pc'[i] \in {"gcList", "csiLimit", "record"}
      BY <2>1 DEF NextStage, TypeOK
    <3> QED
      BY <3>1 DEF Due
  <2>3. \A j \in Instances \ {i} : pc'[j] = pc[j] /\ stamp'[j] = stamp[j]
    BY <2>1 DEF NextStage, TypeOK
  <2>4. owner'[o.stamp] = owner[o.stamp]
    <3>1. CASE owner' = owner
      BY <3>1
    <3>2. ASSUME NEW t \in Stamps, Fresh(t), owner' = [owner EXCEPT ![t] = Label[i]]
          PROVE  owner'[o.stamp] = owner[o.stamp]
      <4>1. o.stamp # t
        <5>1. CASE o \in objs \cup late
          BY <3>2, <5>1 DEF Fresh
        <5>2. CASE o \notin objs \cup late
          <6>1. PICK j \in Instances : \E x \in Due(j)' : o = [kind |-> x, stamp |-> stamp'[j]]
            BY <2>1, <5>2 DEF Reserved, Own
          <6> QED
            BY <2>2, <2>3, <3>2, <6>1 DEF Fresh
        <5> QED
          BY <5>1, <5>2
      <4> QED
        BY <3>2, <4>1 DEF TypeOK, Objects
    <3> QED
      BY <2>1, <3>1, <3>2 DEF NextStage
  <2> QED
    BY <1>5, <2>1, <2>2, <2>3, <2>4 DEF Reserved
<1>9. ASSUME NEW i \in Instances, NEW x \in Objects, GcDelete(i, x) PROVE Kept
  <2>1. objs' \subseteq objs /\ UNCHANGED <<owner, late, pc, stamp>>
    BY <1>9 DEF GcDelete, LoseDelete, Remove
  <2> QED
    BY <1>3, <1>4, <2>1 DEF Reserved
<1> USE DEF LimitListFails, LimitListOk
\* A limit check.
<1>10. ASSUME NEW i \in Instances, CheckCSILimit(i) \/ CheckSCLimit(i) \/ CheckPodLimit(i)
       PROVE  Kept \/ Added
  <2>1. UNCHANGED <<objs, owner, late, stamp>>
    BY <1>10 DEF CheckCSILimit, CheckSCLimit, CheckPodLimit
  <2>2. \A j \in Instances \ {i} : pc'[j] = pc[j]
    BY <1>10 DEF CheckCSILimit, CheckSCLimit, CheckPodLimit, TypeOK
  <2>3. CASE o \in objs' \/ o \in late' \/ (\E j \in Instances \ {i} : \E x \in Due(j)' : o = Own(j, x)')
    <3>1. ASSUME NEW j \in Instances \ {i}, NEW x \in Due(j)', o = Own(j, x)' PROVE Reserved(o)
      <4>1. x \in Due(j) /\ o = Own(j, x)
        BY <1>3, <2>1, <2>2, <3>1 DEF Own
      <4> QED
        BY <4>1 DEF Reserved
    <3> QED
      BY <2>1, <2>3, <3>1 DEF Reserved, Kept
  <2>4. ASSUME NEW x \in Due(i)', o = Own(i, x)' PROVE Kept \/ Added
    <3>1. o = Own(i, x) /\ o.kind = x /\ o.stamp = stamp[i]
      BY <2>1, <2>4 DEF Own
    <3>2. owner[o.stamp] = Label[i]
      BY <3>1 DEF Control, Objects
    <3>3. x \in Due(i) => Kept
      BY <2>1, <3>1 DEF Kept, Reserved
    <3>4. Room(i, o) => Added
      BY <2>1 DEF Added
    <3>5. CASE CheckCSILimit(i)
      <4>1. CASE enabledCSIs = <<>>
        <5>1. pc'[i] = "csiCreate"
          BY <3>5, <4>1 DEF CheckCSILimit, TypeOK
        <5>2. x \in PlanKinds
          BY <1>2, <2>4, <5>1 DEF Due
        <5>3. x \in Parts(enabledCSIs)
          BY <1>1, <5>2 DEF PlanKinds
        <5> QED
          BY <4>1, <5>3 DEF Parts
      <4>2. CASE enabledCSIs # <<>>
        <5>1. x \in PVCKinds /\ Cardinality(Labelled(i, "pvc")) < MaxSyntheticPods * Len(enabledCSIs)
          <6>1. /\ Cardinality(Labelled(i, "pvc")) >= MaxSyntheticPods * Len(enabledCSIs) =>
                        pc'[i] = "record"
                /\ pc'[i] \in {"record", "scLimit", "csiCreate"}
                /\ pc'[i] = "csiCreate" =>
                        "azureFile" \notin {enabledCSIs[n] : n \in DOMAIN enabledCSIs}
            BY <3>5, <4>2 DEF CheckCSILimit, TypeOK
          <6>2. pc'[i] # "record"
            BY <2>4 DEF Due
          <6>3. CASE pc'[i] = "scLimit"
            <7>1. x \in PVCKinds
              BY <1>2, <2>4, <6>3 DEF Due
            <7>2. ~(Cardinality(Labelled(i, "pvc")) >= MaxSyntheticPods * Len(enabledCSIs))
              BY <6>1, <6>3
            <7> QED
              BY <7>1, <7>2, LabelledFinite, FS_CardinalityType, ConfigAssumption, <1>1
          <6>4. CASE pc'[i] = "csiCreate"
            <7>1. x \in PlanKinds
              BY <1>2, <2>4, <6>4 DEF Due
            <7>2. x \in Parts(enabledCSIs) /\ x \in PVCKinds \cup {"sc"}
              BY <1>1, <7>1 DEF PlanKinds
            <7>3. x # "sc"
              BY <1>1, <6>1, <6>4, <7>2 DEF Parts, CSITypes
            <7>4. ~(Cardinality(Labelled(i, "pvc")) >= MaxSyntheticPods * Len(enabledCSIs))
              BY <6>1, <6>4
            <7> QED
              BY <7>2, <7>3, <7>4, LabelledFinite, FS_CardinalityType, ConfigAssumption, <1>1
          <6> QED
            BY <6>1, <6>2, <6>3, <6>4
        <5> QED
          BY <3>1, <3>2, <3>4, <5>1 DEF Room
      <4> QED
        BY <4>1, <4>2
    <3>6. CASE CheckSCLimit(i) \/ CheckPodLimit(i)
      <4>1. PICK kind \in {"sc", "pod"} :
                /\ kind = "sc" => pc[i] = "scLimit" /\ pc'[i] \in {"csiCreate", "record"}
                /\ kind = "pod" => pc'[i] \in {"crd", "podCreate", "csiDelete"}
                /\ Cardinality(Labelled(i, kind)) >= MaxSyntheticPods =>
                        pc'[i] \in {"record", "csiDelete"}
        BY <3>6 DEF CheckSCLimit, CheckPodLimit, TypeOK
      <4>2. pc'[i] \notin {"record", "csiDelete"}
        BY <2>4 DEF Due
      <4>3. Cardinality(Labelled(i, kind)) < MaxSyntheticPods
        BY <4>1, <4>2, LabelledFinite, FS_CardinalityType, ConfigAssumption
      <4>4. x = kind \/ x \in Due(i)
        <5>1. CASE kind = "pod"
          BY <2>4, <4>1, <4>2, <5>1 DEF Due
        <5>2. CASE kind = "sc"
          <6>1. x \in PlanKinds /\ pc[i] = "scLimit"
            BY <1>2, <2>4, <4>1, <4>2, <5>2 DEF Due
          <6>2. x \in PVCKinds \cup {"sc"}
            BY <1>1, <6>1 DEF PlanKinds
          <6> QED
            BY <5>2, <6>1, <6>2 DEF Due
        <5> QED
          BY <5>1, <5>2
      <4> QED
        BY <3>1, <3>2, <3>3, <3>4, <4>3, <4>4 DEF Room
    <3> QED
      BY <1>10, <3>5, <3>6
  <2> QED
    BY <2>3, <2>4 DEF Reserved
\* A create.
<1>11. ASSUME NEW i \in Instances, NEW x \in Due(i),
              UNCHANGED <<owner, stamp>>,
              objs' \subseteq objs \cup {Own(i, x)}, late' \subseteq late \cup {Own(i, x)},
              \A j \in Instances \ {i} : pc'[j] = pc[j],
              Due(i)' \subseteq Due(i)
       PROVE  Kept
  BY <1>5, <1>11 DEF Reserved
<1>12. ASSUME NEW i \in Instances, CreateCSI(i) PROVE Kept
  <2>1. pc[i] = "csiCreate" /\ k[i] \in 1..Len(CsiPlan)
    BY <1>1, <1>12 DEF CreateCSI, TypeOK
  <2>2. CsiPlan[k[i]] \in Due(i)
    BY <2>1 DEF Due, PlanKinds
  <2>3. /\ UNCHANGED <<owner, stamp>>
        /\ objs' \subseteq objs \cup {Own(i, CsiPlan[k[i]])}
        /\ late' \subseteq late \cup {Own(i, CsiPlan[k[i]])}
        /\ \A j \in Instances \ {i} : pc'[j] = pc[j]
        /\ pc'[i] = pc[i] \/ pc'[i] = "record"
    BY <1>12 DEF CreateCSI, LoseCreate, TypeOK
  <2>4. Due(i)' \subseteq Due(i)
    BY <1>3, <2>3 DEF Due
  <2> QED
    BY <1>11, <2>2, <2>3, <2>4
<1>13. ASSUME NEW i \in Instances, CreatePod(i) PROVE Kept
  <2>1. "pod" \in Due(i) /\ pc'[i] \in {"poll", "csiDelete"}
    BY <1>13 DEF CreatePod, Create, Due, TypeOK
  <2>2. Due(i)' = {}
    BY <2>1 DEF Due
  <2> QED
    BY <1>11, <1>13, <2>1, <2>2 DEF CreatePod, Create, LoseCreate, TypeOK
<1>14. ASSUME NEW i \in Instances,
              \/ CreatedCSI(i) \/ CheckCRD(i) \/ CreateNodePool(i) \/ PollRunning(i)
              \/ PollExpires(i) \/ Measure(i) \/ Connect(i)
       PROVE  Kept
  <2>1. /\ UNCHANGED <<owner, stamp>>
        /\ objs' \subseteq objs \cup {Own(i, "pool")}
        /\ late' \subseteq late \cup {Own(i, "pool")}
    BY <1>14 DEF CreatedCSI, CheckCRD, CreateNodePool, Create, LoseCreate, PollRunning,
                 PollExpires, Measure, Connect
  <2>2. /\ \A j \in Instances \ {i} : pc'[j] = pc[j]
        /\ \/ pc'[i] \in {"podLimit", "csiDelete", "measure", "connect", "podDelete"}
           \/ pc[i] \in {"crd", "poolCreate"} /\ pc'[i] \in {"poolCreate", "podCreate"}
    BY <1>14 DEF CreatedCSI, CheckCRD, CreateNodePool, Create, PollRunning, PollExpires,
                 Measure, Connect, TypeOK
  <2>3. Due(i)' \subseteq Due(i)
    BY <2>2 DEF Due
  <2>4. o # Own(i, "pool")
    BY DEF Own
  <2> QED
    BY <1>5, <2>1, <2>2, <2>3, <2>4 DEF Reserved
<1>15. ASSUME NEW i \in Instances, DeletePod(i) \/ DeleteNodePool(i) \/ DeleteCSI(i) \/ DeletedCSI(i)
       PROVE  Kept
  <2>1. objs' \subseteq objs /\ UNCHANGED <<owner, late, stamp>>
    BY <1>15 DEF DeletePod, DeleteNodePool, DeleteCSI, DeletedCSI, Delete, LoseDelete, Remove
  <2>2. /\ \A j \in Instances \ {i} : pc'[j] = pc[j]
        /\ pc'[i] \in {"poolDelete", "csiDelete", "record"}
    BY <1>15 DEF DeletePod, DeleteNodePool, DeleteCSI, DeletedCSI, Delete, TypeOK
  <2>3. Due(i)' = {}
    BY <2>2 DEF Due
  <2> QED
    BY <1>5, <2>1, <2>2, <2>3 DEF Reserved
<1>16. ASSUME NEW i \in Instances, Record(i) \/ Crash(i) PROVE Kept
  <2>1. Reset(i) /\ owner' = owner
    BY <1>16 DEF Record, Crash, LoseCreate
  <2>2. Due(i)' = {} /\ \A j \in Instances \ {i} : pc'[j] = pc[j] /\ stamp'[j] = stamp[j]
    BY <2>1 DEF Reset, Due, TypeOK
  <2>3. PICK x \in Due(i) \cup {"pool"} :
            objs' \subseteq objs \cup {Own(i, x)} /\ late' \subseteq late \cup {Own(i, x)}
    <3>1. CASE UNCHANGED cluster
      BY <3>1
    <3>2. CASE pc[i] = "csiCreate" /\ k[i] <= Len(CsiPlan) /\ LoseCreate(i, Own(i, CsiPlan[k[i]]))
      <4>1. CsiPlan[k[i]] \in Due(i)
        BY <1>1, <3>2 DEF Due, PlanKinds, TypeOK
      <4> QED
        BY <3>2, <4>1 DEF LoseCreate
    <3>3. CASE LoseCreate(i, Own(i, "pool"))
      BY <3>3 DEF LoseCreate
    <3>4. CASE pc[i] = "podCreate" /\ LoseCreate(i, Own(i, "pod"))
      <4>1. "pod" \in Due(i)
        BY <3>4 DEF Due
      <4> QED
        BY <3>4, <4>1 DEF LoseCreate
    <3> QED
      BY <1>16, <3>1, <3>2, <3>3, <3>4 DEF Record, Crash
  <2>4. o # Own(i, "pool")
    BY DEF Own
  <2> QED
    BY <1>5, <2>1, <2>2, <2>3, <2>4 DEF Reserved
<1>17. ASSUME NEW x \in Objects, GrowOld(x) \/ Gone(x) \/ Land(x) PROVE Kept
  <2>1. /\ objs' \subseteq objs \cup late /\ late' \subseteq late
        /\ UNCHANGED <<owner, pc, stamp>>
    BY <1>17 DEF GrowOld, Gone, Land
  <2> QED
    BY <1>3, <1>4, <2>1 DEF Reserved
<1>18. Kept \/ Added
  <2>1. \/ \E i \in Instances : RunStep(i) \/ GcList(i) \/ Expire(i) \/ Crash(i)
        \/ \E x \in Objects : GrowOld(x) \/ Gone(x) \/ Land(x)
    BY <1>6 DEF Next
  <2>2. ASSUME NEW i \in Instances, RunStep(i) PROVE Kept \/ Added
    BY <2>2, <1>7, <1>8, <1>9, <1>10, <1>12, <1>13, <1>14, <1>15, <1>16, Zenon DEF RunStep
  <2> QED
    BY <2>1, <2>2, <1>7, <1>16, <1>17
<1> QED
  BY <1>18 DEF Kept, Added

\* So are the objects a label claims.
LEMMA ClaimedCard == \A l, kinds : Cardinality(Claimed(l, kinds)) \in Nat
BY ObjectsFinite, FS_Subset, FS_CardinalityType DEF Claimed

\* The bounds are inductive.
LEMMA NextBounded == TypeOK /\ Control /\ Bounded /\ [Next]_vars => Bounded'
<1> SUFFICES ASSUME TypeOK, Control, Bounded, [Next]_vars,
                    NEW l \in {Label[i] : i \in Instances}
             PROVE  LET share == Cardinality(Sharing(l))
                        csis == Len(enabledCSIs')
                    IN  /\ Cardinality(Claimed(l, {"pod"})') < MaxSyntheticPods + share + MaxLate
                        /\ Cardinality(Claimed(l, {"sc"})') < MaxSyntheticPods + share + MaxLate
                        /\ csis > 0 => Cardinality(Claimed(l, PVCKinds)')
                                         < (MaxSyntheticPods + share) * csis + MaxLate
  BY DEF Bounded, Sharing
<1>1. TypeOK' /\ Control' /\ enabledCSIs' = enabledCSIs
  BY NextType, NextControl DEF Next, vars
<1>2. IsFiniteSet(Sharing(l)) /\ Cardinality(Sharing(l)) \in Nat
  BY InstancesAssumption, FS_Subset, FS_CardinalityType DEF Sharing
<1>6. ASSUME NEW kinds
      PROVE  Cardinality(Claimed(l, kinds)') \in Nat /\ Cardinality(Claimed(l, kinds)) \in Nat
  BY ObjectsFinite, FS_Subset, FS_CardinalityType DEF Claimed
\* Either nothing is added, or a check found room for the label.
<1>3. ASSUME NEW kinds, "pool" \notin kinds
      PROVE  \/ Cardinality(Claimed(l, kinds)') <= Cardinality(Claimed(l, kinds))
             \/ /\ UNCHANGED <<objs, owner>>
                /\ \E i \in Instances, o \in Objects :
                        Label[i] = l /\ o.kind \in kinds /\ Room(i, o)
  <2>1. CASE Claimed(l, kinds)' \subseteq Claimed(l, kinds)
    <3>1. IsFiniteSet(Claimed(l, kinds))
      BY ObjectsFinite, FS_Subset DEF Claimed
    <3> QED
      BY <2>1, <3>1, FS_Subset
  <2>2. ASSUME NEW o \in Claimed(l, kinds)', o \notin Claimed(l, kinds)
        PROVE  /\ UNCHANGED <<objs, owner>>
               /\ \E i \in Instances : Label[i] = l /\ o.kind \in kinds /\ Room(i, o)
    <3>1. o \in Objects /\ Reserved(o)' /\ o.kind \in kinds /\ owner'[o.stamp] = l
      BY <2>2 DEF Claimed
    <3>2. ~(Reserved(o) /\ owner'[o.stamp] = owner[o.stamp])
      BY <2>2, <3>1 DEF Claimed
    <3>3. UNCHANGED <<objs, owner>> /\ \E i \in Instances : Room(i, o)
      BY <1>3, <3>1, <3>2, NextReserved
    <3> QED
      BY <3>1, <3>3 DEF Room
  <2>3. Claimed(l, kinds)' \subseteq Objects
    BY DEF Claimed
  <2> QED
    BY <2>1, <2>2, <2>3
<1>4. ASSUME NEW kind \in {"pod", "sc"}
      PROVE  Cardinality(Claimed(l, {kind})')
                < MaxSyntheticPods + Cardinality(Sharing(l)) + MaxLate
  <2>1. CASE Cardinality(Claimed(l, {kind})') <= Cardinality(Claimed(l, {kind}))
    <3>1. Cardinality(Claimed(l, {kind})) < MaxSyntheticPods + Cardinality(Sharing(l)) + MaxLate
      BY DEF Bounded
    <3> QED
      BY <1>2, <1>6, <2>1, <3>1, ConfigAssumption, EnvironmentAssumption
  <2>2. ASSUME UNCHANGED <<objs, owner>>, NEW i \in Instances, NEW o \in Objects,
               Label[i] = l, o.kind = kind, Room(i, o)
        PROVE  Cardinality(Claimed(l, {kind})')
                    < MaxSyntheticPods + Cardinality(Sharing(l)) + MaxLate
    <3>1. Cardinality(Labelled(i, kind)) < MaxSyntheticPods
      BY <2>2 DEF Room, PVCKinds, CSITypes
    <3>2. Stored(l, {kind})' = Labelled(i, kind)
      BY <2>2 DEF Stored, Labelled, OfStage, Mine
    <3>3. Cardinality(Stored(l, {kind})') < MaxSyntheticPods
      BY <3>1, <3>2
    <3>4. (TypeOK /\ Control /\ Cardinality(Stored(l, {kind})) < MaxSyntheticPods =>
            Cardinality(Claimed(l, {kind}))
                < MaxSyntheticPods + Cardinality(Sharing(l)) + MaxLate)'
      BY SingleBound, PTL
    <3> QED
      BY <1>1, <3>3, <3>4 DEF Sharing
  <2> QED
    BY <1>3, <2>1, <2>2
<1>5. ASSUME Len(enabledCSIs) > 0
      PROVE  Cardinality(Claimed(l, PVCKinds)')
                < (MaxSyntheticPods + Cardinality(Sharing(l))) * Len(enabledCSIs) + MaxLate
  <2>1. CASE Cardinality(Claimed(l, PVCKinds)') <= Cardinality(Claimed(l, PVCKinds))
    <3>1. Cardinality(Claimed(l, PVCKinds))
            < (MaxSyntheticPods + Cardinality(Sharing(l))) * Len(enabledCSIs) + MaxLate
      BY <1>5 DEF Bounded
    <3>2. (MaxSyntheticPods + Cardinality(Sharing(l))) * Len(enabledCSIs) + MaxLate \in Int
      BY <1>2, PlanFacts, ConfigAssumption, EnvironmentAssumption DEF TypeOK
    <3>3. \A a, b \in Nat, c \in Int : a <= b /\ b < c => a < c
      OBVIOUS
    <3> QED
      BY <1>6, <2>1, <3>1, <3>2, <3>3
  <2>2. ASSUME UNCHANGED <<objs, owner>>, NEW i \in Instances, NEW o \in Objects,
               Label[i] = l, o.kind \in PVCKinds, Room(i, o)
        PROVE  Cardinality(Claimed(l, PVCKinds)')
                    < (MaxSyntheticPods + Cardinality(Sharing(l))) * Len(enabledCSIs) + MaxLate
    <3>1. Cardinality(Labelled(i, "pvc")) < MaxSyntheticPods * Len(enabledCSIs)
      BY <2>2 DEF Room, PVCKinds, CSITypes
    <3>2. Stored(l, PVCKinds)' = Labelled(i, "pvc")
      BY <2>2 DEF Stored, Labelled, OfStage, Mine, PVCKinds
    <3>3. Cardinality(Stored(l, PVCKinds)') < MaxSyntheticPods * Len(enabledCSIs')
      BY <1>1, <3>1, <3>2
    <3>4. (TypeOK /\ Control /\ Cardinality(Stored(l, PVCKinds)) < MaxSyntheticPods * Len(enabledCSIs) =>
            Cardinality(Claimed(l, PVCKinds))
                < (MaxSyntheticPods + Cardinality(Sharing(l))) * Len(enabledCSIs) + MaxLate)'
      BY ClaimsBound, PTL
    <3> QED
      BY <1>1, <3>3, <3>4 DEF Sharing
  <2>3. "pool" \notin PVCKinds
    BY DEF PVCKinds, CSITypes
  <2> QED
    BY <1>3, <2>1, <2>2, <2>3
<1> QED
  BY <1>1, <1>4, <1>5

\* Nothing is claimed at first.
LEMMA InitBounded == Init => Bounded
<1> SUFFICES ASSUME Init, NEW l PROVE
        LET share == Cardinality(Sharing(l))
            csis == Len(enabledCSIs)
        IN  /\ Cardinality(Claimed(l, {"pod"})) < MaxSyntheticPods + share + MaxLate
            /\ Cardinality(Claimed(l, {"sc"})) < MaxSyntheticPods + share + MaxLate
            /\ csis > 0 => Cardinality(Claimed(l, PVCKinds))
                             < (MaxSyntheticPods + share) * csis + MaxLate
  BY DEF Bounded
<1>1. IsFiniteSet(Sharing(l)) /\ Cardinality(Sharing(l)) \in Nat
  BY InstancesAssumption, FS_Subset, FS_CardinalityType DEF Sharing
<1>2. \A kinds : Claimed(l, kinds) = {}
  BY DEF Claimed, Reserved, Due, Init
<1>3. \A kinds : Cardinality(Claimed(l, kinds)) = 0
  BY <1>2, FS_EmptySet
<1>4. Len(enabledCSIs) \in Nat
  BY PlanFacts DEF Init
<1>5. \A a \in Nat \ {0}, b, c \in Nat : c > 0 => (a + b) * c > 0 /\ (a + b) * c \in Nat
  OBVIOUS
<1> QED
  BY <1>1, <1>3, <1>4, <1>5, ConfigAssumption, EnvironmentAssumption

\* What is stored of a name's Pods, StorageClasses and claims is bounded by the
\* limits, by one run's worth for each instance of that name, as instances can
\* pass a check on the same list, and by the creates in flight.
THEOREM Bounds == Spec => []ResourceBounds
<1>1. Init => TypeOK /\ Control /\ Bounded
  BY InitInv, InitBounded
<1>2. TypeOK /\ Control /\ Bounded /\ [Next]_vars => TypeOK' /\ Control' /\ Bounded'
  BY NextType, NextControl, NextBounded
<1>3. TypeOK /\ Bounded => ResourceBounds
  <2> SUFFICES ASSUME TypeOK, Bounded, NEW l \in {Label[i] : i \in Instances}
               PROVE  LET share == Cardinality(Sharing(l))
                          csis == Len(enabledCSIs)
                      IN  /\ Cardinality(Stored(l, {"pod"})) < MaxSyntheticPods + share + MaxLate
                          /\ Cardinality(Stored(l, {"sc"})) < MaxSyntheticPods + share + MaxLate
                          /\ csis > 0 => Cardinality(Stored(l, PVCKinds))
                                           < (MaxSyntheticPods + share) * csis + MaxLate
    BY DEF ResourceBounds
  <2>1. ASSUME NEW kinds
        PROVE  /\ Cardinality(Stored(l, kinds)) \in Nat
               /\ Cardinality(Stored(l, kinds)) <= Cardinality(Claimed(l, kinds))
    <3>1. Stored(l, kinds) \subseteq Claimed(l, kinds)
      BY DEF Stored, Claimed, Reserved, TypeOK
    <3>2. IsFiniteSet(Claimed(l, kinds))
      BY ObjectsFinite, FS_Subset DEF Claimed
    <3> QED
      BY <3>1, <3>2, FS_Subset, FS_CardinalityType
  <2>2. IsFiniteSet(Sharing(l)) /\ Cardinality(Sharing(l)) \in Nat
    BY InstancesAssumption, FS_Subset, FS_CardinalityType DEF Sharing
  <2>3. Len(enabledCSIs) \in Nat
    BY PlanFacts DEF TypeOK
  <2>4. \A a, b \in Nat, c \in Int : a <= b /\ b < c => a < c
    OBVIOUS
  <2>5. /\ (MaxSyntheticPods + Cardinality(Sharing(l))) * Len(enabledCSIs) + MaxLate \in Int
        /\ MaxSyntheticPods + Cardinality(Sharing(l)) + MaxLate \in Int
    BY <2>2, <2>3, ConfigAssumption, EnvironmentAssumption
  <2>6. Len(enabledCSIs) > 0 =>
            Cardinality(Stored(l, PVCKinds))
                < (MaxSyntheticPods + Cardinality(Sharing(l))) * Len(enabledCSIs) + MaxLate
    BY <2>1, <2>4, <2>5, ClaimedCard DEF Bounded
  <2>7. ASSUME NEW kind \in {"pod", "sc"}
        PROVE  Cardinality(Stored(l, {kind})) < MaxSyntheticPods + Cardinality(Sharing(l)) + MaxLate
    <3>1. Cardinality(Claimed(l, {kind})) < MaxSyntheticPods + Cardinality(Sharing(l)) + MaxLate
      BY DEF Bounded
    <3> QED
      BY <2>1, <2>4, <2>5, <3>1, ClaimedCard
  <2> QED
    BY <2>6, <2>7
<1> QED
  BY <1>1, <1>2, <1>3, PTL DEF Spec

-----------------------------------------------------------------------------
(* The Pods, claims and StorageClasses of a name are ObjectPools.          *)

\* What a pool stores, how many it may, and whether i's run holds one of them.
Stock(l, kind) == Stored(l, {kind}) \ leaving
CapOf(l, kind, csis) ==
    (MaxSyntheticPods + Cardinality(Sharing(l)))
        * (IF kind \in PVCKinds THEN Len(csis) ELSE 1) + MaxLate - 1
Holds(l, kind, i) == i \in Sharing(l) /\ time[i] = "ample" /\ kind \in Made(i)

\* A configuration's pools are of kinds that its instances create.
LEMMA PoolKindsAre ==
    ASSUME TypeOK, NEW kind \in PoolKinds(enabledCSIs)
    PROVE  /\ kind \in Kinds /\ kind \in PVCKinds \cup {"sc", "pod"}
           /\ kind \in PVCKinds => Len(enabledCSIs) > 0
<1>1. /\ CsiPlan \in Seq(Parts(enabledCSIs)) /\ enabledCSIs \in Seq(CSITypes)
      /\ \A n \in 1..Len(CsiPlan) : CsiPlan[n] \in Kinds /\ CsiPlan[n] \in PVCKinds \cup {"sc"}
  BY PlanFacts DEF TypeOK
<1>2. CASE kind = "pod"
  BY <1>2, KindsAre DEF PVCKinds, CSITypes
<1>3. ASSUME NEW n \in DOMAIN CsiPlan, kind = CsiPlan[n] PROVE Len(enabledCSIs) > 0
  <2>1. kind \in Parts(enabledCSIs)
    BY <1>1, <1>3
  <2>2. DOMAIN enabledCSIs # {}
    BY <2>1 DEF Parts
  <2> QED
    BY <1>1, <2>2
<1>4. CASE \E n \in DOMAIN CsiPlan : kind = CsiPlan[n]
  BY <1>1, <1>3, <1>4
<1> QED
  BY <1>2, <1>4 DEF PoolKinds, CsiPlan

\* What is held is stored.
HeldInStock == \A l, kind : Held(l, kind) \subseteq Stock(l, kind)
LEMMA HeldStored == TypeOK /\ Control /\ OwnObjectsSurvive => HeldInStock
<1> SUFFICES ASSUME TypeOK, Control, OwnObjectsSurvive, NEW l, NEW kind, NEW i \in Sharing(l),
                    time[i] = "ample", kind \in Made(i)
             PROVE  Own(i, kind) \in Stock(l, kind)
  BY DEF HeldInStock, Held
<1>1. i \in Instances /\ Label[i] = l
  BY DEF Sharing
<1>2. owner[stamp[i]] = l
  BY <1>1, MadeFacts DEF Control
<1> QED
  BY <1>1, <1>2 DEF OwnObjectsSurvive, Stock, Stored, Own

\* What is stored leaves no less room than the bounds say.
StockBounded ==
    \A l \in Labels : \A kind \in PoolKinds(enabledCSIs) :
        Cardinality(Stored(l, {kind})) <= CapOf(l, kind, enabledCSIs)
LEMMA StockFits == TypeOK /\ ResourceBounds => StockBounded
<1> SUFFICES ASSUME TypeOK, ResourceBounds, NEW l \in Labels, NEW kind \in PoolKinds(enabledCSIs)
             PROVE  Cardinality(Stored(l, {kind})) <= CapOf(l, kind, enabledCSIs)
  BY DEF StockBounded
<1> DEFINE share == Cardinality(Sharing(l))
           csis == Len(enabledCSIs)
<1>1. share \in Nat /\ csis \in Nat
  BY InstancesAssumption, FS_Subset, FS_CardinalityType, PlanFacts DEF Sharing, TypeOK
<1>2. /\ IsFiniteSet(Stored(l, {kind})) /\ IsFiniteSet(Stored(l, PVCKinds))
  BY ObjectsFinite, FS_Subset DEF Stored, TypeOK
<1>3. /\ Cardinality(Stored(l, {"pod"})) < MaxSyntheticPods + share + MaxLate
      /\ Cardinality(Stored(l, {"sc"})) < MaxSyntheticPods + share + MaxLate
      /\ csis > 0 => Cardinality(Stored(l, PVCKinds)) < (MaxSyntheticPods + share) * csis + MaxLate
  BY DEF ResourceBounds, Labels
<1>4. Cardinality(Stored(l, {kind})) \in Nat
  BY <1>2, FS_CardinalityType
<1> HIDE DEF share, csis
<1>5. CASE kind \in PVCKinds
  <2>1. Stored(l, {kind}) \subseteq Stored(l, PVCKinds)
    BY <1>5 DEF Stored
  <2>2. Cardinality(Stored(l, {kind})) <= Cardinality(Stored(l, PVCKinds))
          /\ Cardinality(Stored(l, PVCKinds)) \in Nat
    BY <1>2, <2>1, FS_Subset, FS_CardinalityType
  <2>3. csis > 0
    BY <1>5, PoolKindsAre DEF csis
  <2>4. (MaxSyntheticPods + share) * csis \in Int
    BY <1>1, ConfigAssumption
  <2> DEFINE x == (MaxSyntheticPods + share) * csis
  <2>5. CapOf(l, kind, enabledCSIs) = x + (MaxLate - 1)
    BY <1>5 DEF CapOf, share, csis
  <2>6. Cardinality(Stored(l, PVCKinds)) < x + MaxLate
    BY <1>3, <2>3
  <2> HIDE DEF x
  <2> QED
    BY <1>4, <2>2, <2>4, <2>5, <2>6, EnvironmentAssumption DEF x
<1>6. CASE kind \notin PVCKinds
  <2>1. kind \in {"sc", "pod"}
    BY <1>6, PoolKindsAre
  <2>2. CapOf(l, kind, enabledCSIs) = (MaxSyntheticPods + share) * 1 + (MaxLate - 1)
    BY <1>6 DEF CapOf, share
  <2>3. Cardinality(Stored(l, {kind})) < MaxSyntheticPods + share + MaxLate
    BY <1>3, <2>1
  <2> QED
    BY <1>1, <1>4, <2>2, <2>3, ConfigAssumption, EnvironmentAssumption
<1> QED
  BY <1>5, <1>6

\* An instance with parameters has a Cardinality of its own, which is the same.
LEMMA SameCardinality ==
    \A l, kind, csis, S : Pool(l, kind, csis)!Cardinality(S) = Cardinality(S)
  BY DEF Pool!Cardinality, Cardinality, Pool!IsFiniteSet, IsFiniteSet

\* The moves of a pool, by what they do to its variables. There is room for what
\* is stored after a step.
LEMMA PoolMoves ==
    ASSUME TypeOK, Control, Control', OwnObjectsSurvive, OwnObjectsSurvive', ResourceBounds',
           TypeOK', UNCHANGED enabledCSIs, NEW l \in Labels,
           NEW kind \in PoolKinds(enabledCSIs), NEW csis, csis = enabledCSIs
    PROVE  /\ UNCHANGED Stock(l, kind) /\ Held(l, kind)' \subseteq Held(l, kind)
              => Pool(l, kind, csis)!PoolNext
           /\ \A o \in Objects :
                /\ Stock(l, kind)' \in {Stock(l, kind), Stock(l, kind) \cup {o}, Stock(l, kind) \ {o}}
                /\ UNCHANGED Held(l, kind)
                => Pool(l, kind, csis)!PoolNext
           /\ \A o \in Objects :
                /\ o \notin Stock(l, kind) /\ Stock(l, kind)' = Stock(l, kind) \cup {o}
                /\ Held(l, kind)' = Held(l, kind) \cup {o}
                => Pool(l, kind, csis)!PoolNext
           /\ \A o \in Objects :
                /\ o \in Held(l, kind) /\ Stock(l, kind)' = Stock(l, kind) \ {o}
                /\ Held(l, kind)' = Held(l, kind) \ {o}
                => Pool(l, kind, csis)!PoolNext
<1> DEFINE names == {o \in Objects : o.kind = kind}
<1>1. Held(l, kind) \subseteq Stock(l, kind) /\ Stock(l, kind) \subseteq names
  BY HeldStored DEF HeldInStock, Stock, Stored, TypeOK
<1>2. Held(l, kind)' \subseteq Stock(l, kind)'
  <2>1. (TypeOK /\ Control /\ OwnObjectsSurvive => HeldInStock)'
    BY HeldStored, PTL
  <2> QED
    BY <2>1 DEF HeldInStock
<1>3. Stock(l, kind)' \subseteq names
  BY DEF Stock, Stored, TypeOK
<1>4. ASSUME NEW o \in Objects, o \notin Stock(l, kind), Stock(l, kind)' = Stock(l, kind) \cup {o}
      PROVE  Pool(l, kind, csis)!HasRoom /\ o \in names
  <2> DEFINE now == Stock(l, kind)
             next == Stored(l, {kind})'
             cap == CapOf(l, kind, csis)
  <2>1. Cardinality(next) <= cap
    <3>1. (TypeOK /\ ResourceBounds => StockBounded)'
      BY StockFits, PTL
    <3>2. StockBounded'
      BY <3>1
    <3>3. PoolKinds(enabledCSIs)' = PoolKinds(enabledCSIs)
            /\ \A x : CapOf(l, x, enabledCSIs)' = CapOf(l, x, enabledCSIs)
      OBVIOUS
    <3> QED
      BY <3>2, <3>3 DEF StockBounded
  <2>2. now \subseteq next /\ o \in next /\ next \subseteq Objects
    BY <1>4 DEF Stock, Stored, TypeOK
  <2>3. o \notin now
    BY <1>4
  <2> HIDE DEF now, next, cap
  <2>4. IsFiniteSet(next)
    BY <2>2, ObjectsFinite, FS_Subset
  <2>5. Cardinality(now) + 1 <= Cardinality(next) /\ Cardinality(now) \in Nat
          /\ Cardinality(next) \in Nat
    BY <2>2, <2>3, <2>4, PartBound
  <2>6. cap \in Int
    <3>1. Cardinality(Sharing(l)) \in Nat /\ Len(csis) \in Nat
      BY InstancesAssumption, FS_Subset, FS_CardinalityType, PlanFacts DEF Sharing, TypeOK
    <3> QED
      BY <3>1, ConfigAssumption, EnvironmentAssumption DEF cap, CapOf
  <2>7. Cardinality(now) < cap
    BY <2>1, <2>5, <2>6
  <2>8. Pool(l, kind, csis)!Cardinality(Stored(l, {kind}) \ leaving) = Cardinality(now)
    BY SameCardinality DEF now, Stock
  <2>9. Pool(l, kind, csis)!HasRoom <=> Cardinality(now) < cap
    BY <2>8, Zenon DEF Pool!HasRoom, cap, CapOf
  <2> QED
    BY <1>3, <1>4, <2>7, <2>9
<1>5. ASSUME UNCHANGED Stock(l, kind), Held(l, kind)' \subseteq Held(l, kind)
      PROVE  Pool(l, kind, csis)!PoolNext
  <2> DEFINE S == Held(l, kind) \ Held(l, kind)'
  <2>1. S \in SUBSET names /\ S \subseteq Held(l, kind)
    BY <1>1
  <2>2. Held(l, kind)' = Held(l, kind) \ S
    BY <1>5
  <2>3. Pool(l, kind, csis)!Abandon(S)
    BY <1>5, <2>1, <2>2 DEF Pool!Abandon, Stock
  <2> QED
    BY <2>1, <2>3 DEF Pool!PoolNext
<1>6. ASSUME NEW o \in Objects, UNCHANGED Held(l, kind),
             Stock(l, kind)' \in {Stock(l, kind) \cup {o}, Stock(l, kind) \ {o}}
      PROVE  Pool(l, kind, csis)!PoolNext
  <2>1. CASE UNCHANGED Stock(l, kind)
    BY <1>5, <1>6, <2>1
  <2>2. CASE Stock(l, kind)' = Stock(l, kind) \cup {o} /\ o \notin Stock(l, kind)
    BY <1>4, <1>6, <2>2 DEF Pool!Appear, Pool!PoolNext, Stock
  <2>3. CASE Stock(l, kind)' = Stock(l, kind) \ {o} /\ o \in Stock(l, kind)
    <3>1. o \notin Held(l, kind) /\ o \in names
      BY <1>1, <1>2, <1>6, <2>3
    <3> QED
      BY <1>6, <2>3, <3>1 DEF Pool!Sweep, Pool!PoolNext, Stock
  <2> QED
    BY <1>6, <2>1, <2>2, <2>3
<1>7. ASSUME NEW o \in Objects, o \notin Stock(l, kind),
             Stock(l, kind)' = Stock(l, kind) \cup {o}, Held(l, kind)' = Held(l, kind) \cup {o}
      PROVE  Pool(l, kind, csis)!PoolNext
  BY <1>4, <1>7 DEF Pool!Obtain, Pool!PoolNext, Stock
<1>8. ASSUME NEW o \in Objects, o \in Held(l, kind), Stock(l, kind)' = Stock(l, kind) \ {o},
             Held(l, kind)' = Held(l, kind) \ {o}
      PROVE  Pool(l, kind, csis)!PoolNext
  <2>1. o \in names
    BY <1>1, <1>8
  <2> QED
    BY <1>8, <2>1 DEF Pool!Release, Pool!PoolNext, Stock
<1> QED
  BY <1>5, <1>6, <1>7, <1>8

\* What calls do to what is stored.
LEMMA StoredMoves ==
    ASSUME TypeOK, NEW l, NEW kind, NEW o, UNCHANGED owner
    PROVE  /\ UNCHANGED <<objs, leaving>> => UNCHANGED Stock(l, kind)
           /\ objs' = objs \cup {o} /\ UNCHANGED leaving
                => Stock(l, kind)' \in {Stock(l, kind), Stock(l, kind) \cup {o}}
           /\ Remove(o) => Stock(l, kind)' = Stock(l, kind) \ {o}
           /\ \A i : LoseCreate(i, o) => Stock(l, kind)' \in {Stock(l, kind), Stock(l, kind) \cup {o}}
           /\ \A i : LoseDelete(i, o) => Stock(l, kind)' \in {Stock(l, kind), Stock(l, kind) \ {o}}
<1>1. ASSUME UNCHANGED <<objs, leaving>> PROVE UNCHANGED Stock(l, kind)
  BY <1>1 DEF Stock, Stored
<1>2. ASSUME objs' = objs \cup {o}, UNCHANGED leaving
      PROVE  Stock(l, kind)' \in {Stock(l, kind), Stock(l, kind) \cup {o}}
  <2>1. CASE o.kind = kind /\ owner[o.stamp] = l /\ o \notin leaving
    BY <1>2, <2>1 DEF Stock, Stored
  <2>2. CASE ~(o.kind = kind /\ owner[o.stamp] = l /\ o \notin leaving)
    BY <1>2, <2>2 DEF Stock, Stored
  <2> QED
    BY <2>1, <2>2
<1>3. ASSUME Remove(o) PROVE Stock(l, kind)' = Stock(l, kind) \ {o}
  <2>1. objs' \ leaving' = (objs \ leaving) \ {o}
    BY <1>3 DEF Remove
  <2>2. \A x : x \in Stock(l, kind) <=> x \in objs \ leaving /\ x.kind = kind /\ owner[x.stamp] = l
    BY DEF Stock, Stored
  <2>3. \A x : x \in Stock(l, kind)' <=> x \in objs' \ leaving' /\ x.kind = kind
                                            /\ owner[x.stamp] = l
    BY DEF Stock, Stored
  <2> QED
    BY <2>1, <2>2, <2>3
<1> QED
  BY <1>1, <1>2, <1>3 DEF LoseCreate, LoseDelete, cluster

\* Nothing happens to what is of another kind, or there already.
LEMMA StoredStays ==
    ASSUME TypeOK, NEW l, NEW kind, NEW o, o.kind # kind \/ o \in objs \ leaving, UNCHANGED owner
    PROVE  /\ objs' = objs \cup {o} /\ UNCHANGED leaving => UNCHANGED Stock(l, kind)
           /\ \A i : LoseCreate(i, o) => UNCHANGED Stock(l, kind)
           /\ o.kind # kind => /\ Remove(o) => UNCHANGED Stock(l, kind)
                               /\ \A i : LoseDelete(i, o) => UNCHANGED Stock(l, kind)
<1>1. ASSUME objs' = objs \cup {o}, UNCHANGED leaving PROVE UNCHANGED Stock(l, kind)
  BY <1>1 DEF Stock, Stored
<1>2. ASSUME Remove(o), o.kind # kind PROVE UNCHANGED Stock(l, kind)
  <2>1. o \notin Stock(l, kind)
    BY <1>2 DEF Stock, Stored
  <2> QED
    BY <1>2, <2>1, StoredMoves
<1>3. ASSUME UNCHANGED <<objs, leaving>> PROVE UNCHANGED Stock(l, kind)
  BY <1>3 DEF Stock, Stored
<1> QED
  BY <1>1, <1>2, <1>3 DEF LoseCreate, LoseDelete, cluster

\* A step of i's run changes no other run.
Only(i) == \A j \in Instances \ {i} : /\ pc'[j] = pc[j] /\ time'[j] = time[j]
                                       /\ stamp'[j] = stamp[j] /\ k'[j] = k[j]

\* What a step of one run does to what is held.
LEMMA HeldMoves ==
    ASSUME TypeOK, Control, UNCHANGED enabledCSIs, NEW l, NEW kind, NEW i \in Instances, Only(i)
    PROVE  /\ ~Holds(l, kind, i) /\ ~Holds(l, kind, i)' => UNCHANGED Held(l, kind)
           /\ stamp'[i] = stamp[i] /\ (Holds(l, kind, i)' <=> Holds(l, kind, i))
                => UNCHANGED Held(l, kind)
           /\ (Holds(l, kind, i)' => Holds(l, kind, i) /\ stamp'[i] = stamp[i])
                => Held(l, kind)' \subseteq Held(l, kind)
           /\ ~Holds(l, kind, i) /\ Holds(l, kind, i)' /\ stamp'[i] = stamp[i]
                => Held(l, kind)' = Held(l, kind) \cup {Own(i, kind)}
           /\ Holds(l, kind, i) /\ ~Holds(l, kind, i)'
                => Held(l, kind)' = Held(l, kind) \ {Own(i, kind)}
<1> DEFINE H(j) == Holds(l, kind, j)
           H1(j) == Holds(l, kind, j)'
           obj(s) == [kind |-> kind, stamp |-> s]
<1>1. Held(l, kind) = {obj(stamp[j]) : j \in {j \in Instances : H(j)}}
  BY DEF Held, Holds, Own, Sharing
<1>2. Held(l, kind)' = {obj(stamp'[j]) : j \in {j \in Instances : H1(j)}}
  BY DEF Held, Holds, Own, Sharing
<1>3. \A j \in Instances : j # i => (H1(j) <=> H(j)) /\ stamp'[j] = stamp[j]
  <2>1. CsiPlan' = CsiPlan
    BY DEF CsiPlan
  <2> QED
    BY <2>1 DEF Holds, Sharing, Made, Only
<1>4. \A j \in Instances : H(j) /\ H(i) /\ j # i => stamp[j] # stamp[i]
  BY MadeFacts, StampsAssumption DEF Holds, Control
<1>5. Own(i, kind) = obj(stamp[i])
  BY DEF Own
<1> HIDE DEF H, H1
<1>6. ASSUME ~H(i), ~H1(i) PROVE UNCHANGED Held(l, kind)
  BY <1>1, <1>2, <1>3, <1>6
<1>7. ASSUME stamp'[i] = stamp[i], H1(i) <=> H(i) PROVE UNCHANGED Held(l, kind)
  BY <1>1, <1>2, <1>3, <1>7
<1>8. ASSUME H1(i) => H(i) /\ stamp'[i] = stamp[i] PROVE Held(l, kind)' \subseteq Held(l, kind)
  BY <1>1, <1>2, <1>3, <1>8
<1>9. ASSUME ~H(i), H1(i), stamp'[i] = stamp[i]
      PROVE  Held(l, kind)' = Held(l, kind) \cup {obj(stamp[i])}
  BY <1>1, <1>2, <1>3, <1>9
<1>10. ASSUME H(i), ~H1(i) PROVE Held(l, kind)' = Held(l, kind) \ {obj(stamp[i])}
  <2>1. \A x : x \in Held(l, kind)' <=> \E j \in Instances : j # i /\ H(j) /\ x = obj(stamp[j])
    BY <1>2, <1>3, <1>10
  <2>2. \A x : x \in Held(l, kind) <=> \E j \in Instances : H(j) /\ x = obj(stamp[j])
    BY <1>1
  <2>3. \A j \in Instances : j # i /\ H(j) => obj(stamp[j]) # obj(stamp[i])
    BY <1>4, <1>10
  <2> QED
    BY <2>1, <2>2, <2>3
<1> QED
  BY <1>5, <1>6, <1>7, <1>8, <1>9, <1>10 DEF H, H1


\* A step of i's run is a move of each pool if what it holds after the step it held
\* before, or has just created.
LEMMA RunMoves ==
    ASSUME TypeOK, Control, Control', OwnObjectsSurvive, OwnObjectsSurvive', ResourceBounds',
           TypeOK', UNCHANGED <<enabledCSIs, owner>>, NEW l \in Labels,
           NEW kind \in PoolKinds(enabledCSIs), NEW csis, csis = enabledCSIs,
           NEW i \in Instances, Only(i)
    PROVE  /\ UNCHANGED <<objs, leaving>>
              /\ (Holds(l, kind, i)' => Holds(l, kind, i) /\ stamp'[i] = stamp[i])
              => Pool(l, kind, csis)!PoolNext
           /\ \A x : /\ Own(i, x) \in Objects /\ LoseCreate(i, Own(i, x))
                     /\ Holds(l, kind, i)' => Holds(l, kind, i) /\ stamp'[i] = stamp[i]
                     => Pool(l, kind, csis)!PoolNext
           /\ \A x : /\ Own(i, x) \in Objects
                     /\ Remove(Own(i, x)) \/ LoseDelete(i, Own(i, x))
                     /\ Holds(l, kind, i)' => Holds(l, kind, i) /\ stamp'[i] = stamp[i] /\ x # kind
                     => Pool(l, kind, csis)!PoolNext
           /\ \A x : /\ Own(i, x) \in Objects /\ stamp'[i] = stamp[i]
                     /\ objs' = objs \cup {Own(i, x)} /\ UNCHANGED leaving
                     /\ x # kind => (Holds(l, kind, i)' => Holds(l, kind, i))
                     /\ x = kind => ~Holds(l, kind, i)
                     /\ x = kind /\ Holds(l, kind, i)' => Own(i, x) \notin objs
                     => Pool(l, kind, csis)!PoolNext
<1> DEFINE H == Holds(l, kind, i)
           H1 == Holds(l, kind, i)'
<1>1. (H1 => H /\ stamp'[i] = stamp[i]) => Held(l, kind)' \subseteq Held(l, kind)
  BY HeldMoves
<1>2. ASSUME UNCHANGED Stock(l, kind), H1 => H /\ stamp'[i] = stamp[i]
      PROVE  Pool(l, kind, csis)!PoolNext
  BY <1>1, <1>2, PoolMoves
<1>3. ASSUME NEW o \in Objects, ~H, ~H1,
             Stock(l, kind)' \in {Stock(l, kind), Stock(l, kind) \cup {o}, Stock(l, kind) \ {o}}
      PROVE  Pool(l, kind, csis)!PoolNext
  <2>1. UNCHANGED Held(l, kind)
    BY <1>3, HeldMoves
  <2> QED
    BY <1>3, <2>1, PoolMoves
<1>4. H => /\ Own(i, kind) \in objs \ leaving /\ Own(i, kind) \in Held(l, kind)
           /\ owner[stamp[i]] = l
  BY MadeFacts DEF Holds, Held, OwnObjectsSurvive, Control, Sharing
<1>5. \A x : Own(i, x).kind = x /\ Own(i, x).stamp = stamp[i]
  BY DEF Own
<1>6. ASSUME UNCHANGED <<objs, leaving>>, H1 => H /\ stamp'[i] = stamp[i]
      PROVE  Pool(l, kind, csis)!PoolNext
  <2>1. UNCHANGED Stock(l, kind)
    BY <1>6 DEF Stock, Stored
  <2> QED
    BY <1>2, <1>6, <2>1
<1>7. ASSUME NEW x, Own(i, x) \in Objects, LoseCreate(i, Own(i, x)), H1 => H /\ stamp'[i] = stamp[i]
      PROVE  Pool(l, kind, csis)!PoolNext
  <2>1. CASE H
    <3>1. Own(i, x).kind # kind \/ Own(i, x) \in objs \ leaving
      BY <1>4, <1>5, <2>1
    <3>2. UNCHANGED Stock(l, kind)
      BY <1>7, <3>1, StoredStays
    <3> QED
      BY <1>2, <1>7, <3>2
  <2>2. CASE ~H
    <3>1. Stock(l, kind)' \in {Stock(l, kind), Stock(l, kind) \cup {Own(i, x)}}
      BY <1>7, StoredMoves
    <3> QED
      BY <1>3, <1>7, <2>2, <3>1
  <2> QED
    BY <2>1, <2>2
<1>8. ASSUME NEW x, Own(i, x) \in Objects, Remove(Own(i, x)) \/ LoseDelete(i, Own(i, x)),
             H1 => H /\ stamp'[i] = stamp[i] /\ x # kind
      PROVE  Pool(l, kind, csis)!PoolNext
  <2>1. Stock(l, kind)' \in {Stock(l, kind), Stock(l, kind) \ {Own(i, x)}}
    BY <1>8, StoredMoves
  <2>2. CASE x # kind
    <3>1. UNCHANGED Stock(l, kind)
      BY <1>5, <1>8, <2>2, StoredStays
    <3> QED
      BY <1>2, <1>8, <3>1
  <2>3. CASE x = kind /\ H
    <3>1. ~H1
      BY <1>8, <2>3
    <3>2. Held(l, kind)' = Held(l, kind) \ {Own(i, kind)}
      BY <2>3, <3>1, HeldMoves
    <3>3. CASE UNCHANGED Stock(l, kind)
      BY <1>2, <3>1, <3>3
    <3>4. CASE Stock(l, kind)' = Stock(l, kind) \ {Own(i, kind)}
      BY <1>4, <1>8, <2>3, <3>2, <3>4, PoolMoves
    <3> QED
      BY <2>1, <2>3, <3>3, <3>4
  <2>4. CASE x = kind /\ ~H
    BY <1>3, <1>8, <2>1, <2>4
  <2> QED
    BY <2>2, <2>3, <2>4
<1>9. ASSUME NEW x, Own(i, x) \in Objects, stamp'[i] = stamp[i],
             objs' = objs \cup {Own(i, x)}, UNCHANGED leaving, x # kind => (H1 => H),
             x = kind => ~H, x = kind /\ H1 => Own(i, x) \notin objs
      PROVE  Pool(l, kind, csis)!PoolNext
  <2>1. CASE x # kind
    <3>1. UNCHANGED Stock(l, kind)
      BY <1>5, <1>9, <2>1, StoredStays
    <3> QED
      BY <1>2, <1>9, <2>1, <3>1
  <2>2. CASE x = kind /\ ~H1
    <3>1. Stock(l, kind)' \in {Stock(l, kind), Stock(l, kind) \cup {Own(i, x)}}
      BY <1>9, StoredMoves
    <3> QED
      BY <1>3, <1>9, <2>2, <3>1
  <2>3. CASE x = kind /\ H1
    <3>1. Held(l, kind)' = Held(l, kind) \cup {Own(i, x)}
      BY <1>9, <2>3, HeldMoves
    <3>2. Own(i, x) \notin Stock(l, kind)
      BY <1>9, <2>3 DEF Stock, Stored
    <3>3. Stock(l, kind)' = Stock(l, kind) \cup {Own(i, x)}
      <4>1. Held(l, kind)' \subseteq Stock(l, kind)'
        <5>1. (TypeOK /\ Control /\ OwnObjectsSurvive => HeldInStock)'
          BY HeldStored, PTL
        <5> QED
          BY <5>1 DEF HeldInStock
      <4>2. Stock(l, kind)' \in {Stock(l, kind), Stock(l, kind) \cup {Own(i, x)}}
        BY <1>9, StoredMoves
      <4> QED
        BY <3>1, <4>1, <4>2
    <3> QED
      BY <1>9, <3>1, <3>2, <3>3, PoolMoves
  <2> QED
    BY <2>1, <2>2, <2>3
<1> QED
  BY <1>6, <1>7, <1>8, <1>9

\* Every step is one of the moves of each pool.
LEMMA PoolStep ==
    ASSUME TypeOK, Control, Protected, OwnObjectsSurvive, TypeOK', Control',
           OwnObjectsSurvive', ResourceBounds', Next, NEW l \in Labels, NEW csis,
           csis = enabledCSIs, NEW kind \in PoolKinds(csis)
    PROVE  Pool(l, kind, csis)!PoolNext
<1> USE DEF Goto, Fail, Return, ReturnVia, cluster, gc
<1> DEFINE H(i) == Holds(l, kind, i)
           H1(i) == Holds(l, kind, i)'
           Moved == Pool(l, kind, csis)!PoolNext
<1>1. /\ CsiPlan' = CsiPlan /\ enabledCSIs' = enabledCSIs /\ Len(CsiPlan) \in Nat
      /\ \A n \in 1..Len(CsiPlan) : CsiPlan[n] \in PVCKinds \cup {"sc"}
  BY PlanFacts DEF TypeOK, Next, CsiPlan
<1>2. /\ kind # "pool" /\ kind \in PoolKinds(enabledCSIs)
      /\ \A n \in 1..Len(CsiPlan) : CsiPlan[n] # "pod"
  BY <1>1, PoolKindsAre DEF PVCKinds, CSITypes
<1>3. \A i \in Instances : H1(i) => /\ i \in Sharing(l) /\ time'[i] = "ample" /\ kind \in Made(i)'
  BY DEF Holds, Sharing
<1>4. \A i \in Instances : /\ H1(i) /\ time[i] = "ample" /\ kind \in Made(i) => H(i)
                           /\ H(i) => time[i] = "ample" /\ kind \in Made(i)
  BY DEF Holds, Sharing
<1> HIDE DEF H, H1, Moved
<1>5. ASSUME NEW i \in Instances, Only(i), UNCHANGED owner
      PROVE  /\ UNCHANGED <<objs, leaving>> /\ (H1(i) => H(i) /\ stamp'[i] = stamp[i]) => Moved
             /\ \A x : /\ Own(i, x) \in Objects /\ LoseCreate(i, Own(i, x))
                       /\ H1(i) => H(i) /\ stamp'[i] = stamp[i]
                       => Moved
             /\ \A x : /\ Own(i, x) \in Objects
                       /\ Remove(Own(i, x)) \/ LoseDelete(i, Own(i, x))
                       /\ H1(i) => H(i) /\ stamp'[i] = stamp[i] /\ x # kind
                       => Moved
             /\ \A x : /\ Own(i, x) \in Objects /\ stamp'[i] = stamp[i]
                       /\ objs' = objs \cup {Own(i, x)} /\ UNCHANGED leaving
                       /\ x # kind => (H1(i) => H(i))
                       /\ x = kind => ~H(i)
                       /\ x = kind /\ H1(i) => Own(i, x) \notin objs
                       => Moved
  <2>1. UNCHANGED <<enabledCSIs, owner>>
    BY <1>1, <1>5
  <2> QED
    BY <1>2, <1>5, <2>1, RunMoves DEF H, H1, Moved
<1> USE DEF LimitListFails, LimitListOk
\* Steps of a run that holds nothing after.
<1>6. ASSUME NEW i \in Instances, StartRun(i) \/ GcList(i) \/ DeletedCSI(i) \/ Record(i)
      PROVE  Moved
  <2>1. /\ UNCHANGED <<owner, objs, leaving>> /\ Only(i)
        /\ pc'[i] \in {"gcList", "gcDelete", "record", "idle"}
    BY <1>6 DEF StartRun, GcList, DeletedCSI, Record, Reset, TypeOK, Only
  <2> QED
    BY <1>3, <1>5, <2>1 DEF Made
<1>7. ASSUME NEW i \in Instances, CheckCSILimit(i) \/ CheckSCLimit(i) PROVE Moved
  <2>1. k[i] = 1
    BY <1>7 DEF CheckCSILimit, CheckSCLimit, Control
  <2>2. /\ UNCHANGED <<owner, objs, leaving>> /\ Only(i)
        /\ pc'[i] \in {"scLimit", "csiCreate", "record"} /\ k'[i] = 1
    BY <1>7, <2>1 DEF CheckCSILimit, CheckSCLimit, TypeOK, Only
  <2>3. kind \notin Made(i)'
    BY <1>1, <2>2 DEF Made
  <2> QED
    BY <1>3, <1>5, <2>2, <2>3
\* Steps of a run that go on with what it has made.
<1>8. ASSUME NEW i \in Instances, CreatedCSI(i) \/ CheckPodLimit(i) \/ CheckCRD(i) PROVE Moved
  <2>1. /\ pc[i] \in {"csiCreate", "podLimit", "crd"}
        /\ pc[i] = "csiCreate" => k[i] = Len(CsiPlan) + 1
        /\ UNCHANGED <<owner, objs, leaving, stamp, time>> /\ Only(i)
        /\ \/ pc'[i] \in {"podLimit", "crd", "poolCreate", "podCreate"}
           \/ pc'[i] = "csiDelete" /\ k'[i] = 1
    <3>1. CASE CreatedCSI(i)
      BY <1>1, <3>1 DEF CreatedCSI, TypeOK, Only
    <3>2. CASE CheckPodLimit(i)
      BY <3>2 DEF CheckPodLimit, TypeOK, Only
    <3>3. CASE CheckCRD(i)
      BY <3>3 DEF CheckCRD, TypeOK, Only
    <3> QED
      BY <1>8, <3>1, <3>2, <3>3
  <2>2. kind \in Made(i)' => kind \in Made(i)
    BY <1>1, <2>1 DEF Made
  <2> QED
    BY <1>3, <1>4, <1>5, <2>1, <2>2
<1>9. ASSUME NEW i \in Instances, PollRunning(i) \/ PollExpires(i) \/ Measure(i) \/ Connect(i)
      PROVE  Moved
  <2>1. /\ UNCHANGED <<owner, objs, leaving, stamp, time>> /\ Only(i)
        /\ pc[i] \in {"poll", "measure", "connect"}
        /\ pc'[i] \in {"measure", "connect", "podDelete"}
    BY <1>9 DEF PollRunning, PollExpires, Measure, Connect, TypeOK, Only
  <2>2. kind \in Made(i)' => kind \in Made(i)
    BY <1>1, <2>1 DEF Made
  <2> QED
    BY <1>3, <1>4, <1>5, <2>1, <2>2
<1>10. ASSUME NEW i \in Instances, Expire(i) PROVE Moved
  <2>1. UNCHANGED <<owner, objs, leaving, stamp>> /\ Only(i) /\ time'[i] # "ample"
    BY <1>10 DEF Expire, TypeOK, Only
  <2> QED
    BY <1>3, <1>5, <2>1
\* Creations.
<1>11. ASSUME NEW i \in Instances, CreateCSI(i) PROVE Moved
  <2> DEFINE x == CsiPlan[k[i]]
  <2>1. k[i] \in 1..Len(CsiPlan) /\ pc[i] = "csiCreate"
    BY <1>1, <1>11 DEF CreateCSI, TypeOK
  <2>2. Own(i, x) \in Objects
    BY <2>1, OwnObjects DEF Collecting
  <2>3. Only(i) /\ UNCHANGED <<owner, stamp, time>>
    BY <1>11 DEF CreateCSI, TypeOK, Only, LoseCreate
  <2>4. CASE LoseCreate(i, Own(i, x)) /\ pc' = [pc EXCEPT ![i] = "record"]
    <3>1. pc'[i] = "record"
      BY <2>4 DEF TypeOK
    <3> QED
      BY <1>3, <1>5, <2>2, <2>3, <2>4, <3>1 DEF Made
  <2>5. CASE /\ Own(i, x) \notin objs /\ objs' = objs \cup {Own(i, x)}
             /\ k' = [k EXCEPT ![i] = @ + 1] /\ UNCHANGED <<leaving, pc>>
    <3>1. k'[i] = k[i] + 1 /\ pc'[i] = "csiCreate"
      BY <2>1, <2>5 DEF TypeOK
    <3>2. kind \in Made(i)' => kind \in Made(i) \/ kind = x
      BY <1>1, <2>1, <3>1 DEF Made
    <3>3. x = kind => ~H(i)
      BY <1>4, <2>5 DEF OwnObjectsSurvive
    <3> QED
      BY <1>3, <1>4, <1>5, <2>2, <2>3, <2>5, <3>2, <3>3
  <2> QED
    BY <1>11, <2>4, <2>5 DEF CreateCSI
<1>12. ASSUME NEW i \in Instances, CreateNodePool(i) PROVE Moved
  <2>1. pc[i] = "poolCreate" /\ Own(i, "pool") \in Objects
    BY <1>12, OwnObjects DEF CreateNodePool, Control, Collecting
  <2>2. /\ Only(i) /\ UNCHANGED <<owner, stamp, time, leaving>>
        /\ \/ pc'[i] = "podCreate" /\ objs' = objs \cup {Own(i, "pool")}
           \/ pc'[i] = "csiDelete" /\ k'[i] = 1 /\ LoseCreate(i, Own(i, "pool"))
    BY <1>12 DEF CreateNodePool, Create, TypeOK, Only, LoseCreate
  <2>3. kind \in Made(i)' => kind \in Made(i)
    BY <1>1, <2>1, <2>2 DEF Made
  <2> QED
    BY <1>2, <1>3, <1>4, <1>5, <2>1, <2>2, <2>3
<1>13. ASSUME NEW i \in Instances, CreatePod(i) PROVE Moved
  <2>1. pc[i] = "podCreate" /\ Own(i, "pod") \in Objects
    BY <1>13, OwnObjects DEF CreatePod, Collecting
  <2>2. /\ Only(i) /\ UNCHANGED <<owner, stamp, time, leaving>>
        /\ \/ pc'[i] = "poll" /\ objs' = objs \cup {Own(i, "pod")}
           \/ pc'[i] = "csiDelete" /\ k'[i] = 1 /\ LoseCreate(i, Own(i, "pod"))
    BY <1>13 DEF CreatePod, Create, TypeOK, Only, LoseCreate
  <2>3. /\ kind \in Made(i)' => kind \in Made(i) \/ (kind = "pod" /\ pc'[i] = "poll")
        /\ kind = "pod" => kind \notin Made(i)
    BY <1>1, <1>2, <2>1, <2>2 DEF Made
  <2>4. Own(i, "pod") \notin objs
    BY <2>1 DEF Protected, BeforePod, Own
  <2>5. CASE pc'[i] = "poll" /\ objs' = objs \cup {Own(i, "pod")}
    BY <1>3, <1>4, <1>5, <2>1, <2>2, <2>3, <2>4, <2>5
  <2>6. CASE pc'[i] = "csiDelete" /\ LoseCreate(i, Own(i, "pod"))
    BY <1>3, <1>4, <1>5, <2>1, <2>2, <2>3, <2>6
  <2> QED
    BY <2>2, <2>5, <2>6
\* Deletions.
<1>14. ASSUME NEW i \in Instances, DeletePod(i) \/ DeleteNodePool(i) PROVE Moved
  <2>1. PICK x \in {"pod", "pool"} :
            /\ Remove(Own(i, x)) \/ LoseDelete(i, Own(i, x))
            /\ pc[i] = IF x = "pod" THEN "podDelete" ELSE "poolDelete"
            /\ pc'[i] \in {"poolDelete", "csiDelete"}
            /\ Only(i) /\ UNCHANGED <<owner, stamp, time, k>>
    <3>1. CASE DeletePod(i)
      BY <3>1 DEF DeletePod, Delete, TypeOK, Only, Remove, LoseDelete
    <3>2. CASE DeleteNodePool(i)
      BY <3>2 DEF DeleteNodePool, Delete, TypeOK, Only, Remove, LoseDelete
    <3> QED
      BY <1>14, <3>1, <3>2
  <2>2. Own(i, x) \in Objects /\ k[i] = 1
    BY <2>1, OwnObjects DEF Control, Collecting
  <2>3. kind \in Made(i)' => kind \in Made(i) /\ x # kind
    BY <1>1, <1>2, <2>1, <2>2 DEF Made
  <2> QED
    BY <1>3, <1>4, <1>5, <2>1, <2>2, <2>3
<1>15. ASSUME NEW i \in Instances, DeleteCSI(i) PROVE Moved
  <2> DEFINE x == CsiPlan[k[i]]
  <2>1. k[i] \in 1..Len(CsiPlan) /\ pc[i] = "csiDelete"
    BY <1>1, <1>15 DEF DeleteCSI, TypeOK
  <2>2. Own(i, x) \in Objects
    BY <2>1, OwnObjects DEF Collecting
  <2>3. Only(i) /\ UNCHANGED <<owner, stamp, time>>
    BY <1>15 DEF DeleteCSI, TypeOK, Only, Remove, LoseDelete
  <2>4. CASE LoseDelete(i, Own(i, x)) /\ pc' = [pc EXCEPT ![i] = "record"]
    <3>1. pc'[i] = "record"
      BY <2>4 DEF TypeOK
    <3> QED
      BY <1>3, <1>5, <2>2, <2>3, <2>4, <3>1 DEF Made
  <2>5. CASE Remove(Own(i, x)) /\ k' = [k EXCEPT ![i] = @ + 1] /\ UNCHANGED pc
    <3>1. k'[i] = k[i] + 1 /\ pc'[i] = "csiDelete"
      BY <2>1, <2>5 DEF TypeOK
    <3>2. ASSUME time[i] = "ample", kind \in Made(i)' PROVE kind \in Made(i) /\ x # kind
      <4>1. PICK n \in (k[i] + 1)..Len(CsiPlan) : kind = CsiPlan[n]
        BY <1>1, <3>1, <3>2 DEF Made
      <4>2. x # kind
        BY <1>1, <2>1, <3>2, <4>1 DEF Protected, WithCSI, Done
      <4>3. kind \in Made(i)
        BY <2>1, <4>1 DEF Made
      <4> QED
        BY <4>2, <4>3
    <3> QED
      BY <1>3, <1>4, <1>5, <2>2, <2>3, <2>5, <3>2
  <2> QED
    BY <1>15, <2>4, <2>5 DEF DeleteCSI
\* A crash leaves a create of an object that the run does not hold.
<1>16. ASSUME NEW i \in Instances, Crash(i) PROVE Moved
  <2>1. Only(i) /\ UNCHANGED owner /\ pc'[i] = "idle"
    BY <1>16 DEF Crash, Reset, TypeOK, LoseCreate, Only
  <2>2. ~H1(i)
    BY <1>3, <2>1 DEF Made
  <2>3. CASE UNCHANGED cluster
    BY <1>5, <2>1, <2>2, <2>3
  <2>4. CASE pc[i] = "csiCreate" /\ k[i] <= Len(CsiPlan) /\ LoseCreate(i, Own(i, CsiPlan[k[i]]))
    <3>1. k[i] \in 1..Len(CsiPlan)
      BY <1>1, <2>4 DEF TypeOK
    <3>2. Own(i, CsiPlan[k[i]]) \in Objects
      BY <2>4, <3>1, OwnObjects DEF Collecting
    <3> QED
      BY <1>5, <2>1, <2>2, <2>4, <3>2
  <2>5. CASE pc[i] = "poolCreate" /\ LoseCreate(i, Own(i, "pool"))
    <3>1. Own(i, "pool") \in Objects
      BY <2>5, OwnObjects DEF Control, Collecting
    <3> QED
      BY <1>5, <2>1, <2>2, <2>5, <3>1
  <2>6. CASE pc[i] = "podCreate" /\ LoseCreate(i, Own(i, "pod"))
    <3>1. Own(i, "pod") \in Objects
      BY <2>6, OwnObjects DEF Collecting
    <3> QED
      BY <1>5, <2>1, <2>2, <2>6, <3>1
  <2> QED
    BY <1>16, <2>3, <2>4, <2>5, <2>6 DEF Crash
\* Garbage collection, which holds nothing, and the cluster.
<1>17. ASSUME NEW o \in Objects, UNCHANGED Held(l, kind),
              Stock(l, kind)' \in {Stock(l, kind), Stock(l, kind) \cup {o}, Stock(l, kind) \ {o}}
       PROVE  Moved
  BY <1>1, <1>2, <1>17, PoolMoves DEF Moved
<1>18. ASSUME NEW i \in Instances, GcListFails(i) \/ GcDone(i) PROVE Moved
  <2>1. /\ Only(i) /\ UNCHANGED <<objs, leaving>> /\ pc[i] \in Collecting
        /\ pc'[i] \in {"gcList", "csiLimit", "record"}
    BY <1>18 DEF GcListFails, GcDone, NextStage, TypeOK, Only, Collecting
  <2>2. \A o \in objs : owner'[o.stamp] = owner[o.stamp]
    <3>1. NextStage(i)
      BY <1>18 DEF GcListFails, GcDone
    <3>2. CASE UNCHANGED owner
      BY <3>2
    <3>3. ASSUME NEW t \in Stamps, Fresh(t), owner' = [owner EXCEPT ![t] = Label[i]],
                 NEW o \in objs
          PROVE  owner'[o.stamp] = owner[o.stamp]
      <4>1. o.stamp # t
        BY <3>3 DEF Fresh
      <4>2. o.stamp \in Stamps
        BY <3>3 DEF TypeOK, Objects
      <4> QED
        BY <3>3, <4>1, <4>2 DEF TypeOK
    <3> QED
      BY <3>1, <3>2, <3>3 DEF NextStage
  <2>3. UNCHANGED Stock(l, kind)
    BY <2>1, <2>2 DEF Stock, Stored
  <2>4. ~H1(i)
    BY <1>3, <2>1 DEF Made
  <2>5. Held(l, kind)' \subseteq Held(l, kind)
    BY <1>1, <2>1, <2>4, HeldMoves DEF H1
  <2> QED
    BY <1>1, <1>2, <2>3, <2>5, PoolMoves DEF Moved
<1>19. ASSUME NEW i \in Instances, NEW o \in Objects, GcDelete(i, o) PROVE Moved
  <2>1. UNCHANGED <<pc, time, stamp, k, owner>>
    BY <1>19 DEF GcDelete, Remove, LoseDelete
  <2>2. UNCHANGED Held(l, kind)
    BY <1>1, <2>1 DEF Held, Made, Own, Sharing
  <2>3. Stock(l, kind)' \in {Stock(l, kind), Stock(l, kind) \ {o}}
    BY <1>19, <2>1, StoredMoves DEF GcDelete
  <2> QED
    BY <1>17, <2>2, <2>3
<1>20. ASSUME NEW o \in Objects, GrowOld(o) \/ Gone(o) \/ Land(o) PROVE Moved
  <2>1. UNCHANGED <<pc, time, stamp, k, owner>>
    BY <1>20 DEF GrowOld, Gone, Land
  <2>2. UNCHANGED Held(l, kind)
    BY <1>1, <2>1 DEF Held, Made, Own, Sharing
  <2>3. Stock(l, kind)' \in {Stock(l, kind), Stock(l, kind) \cup {o}}
    <3>1. CASE Land(o)
      BY <3>1, StoredMoves DEF Land
    <3>2. CASE GrowOld(o) \/ Gone(o)
      BY <3>2 DEF GrowOld, Gone, Stock, Stored
    <3> QED
      BY <1>20, <3>1, <3>2
  <2> QED
    BY <1>17, <2>2, <2>3
<1> QED
  <2>1. ASSUME NEW i \in Instances, RunStep(i) PROVE Moved
    BY <1>6, <1>7, <1>8, <1>9, <1>11, <1>12, <1>13, <1>14, <1>15, <1>18, <1>19, <2>1, Zenon
       DEF RunStep
  <2>2. Moved
    BY <1>6, <1>10, <1>16, <1>20, <2>1 DEF Next
  <2> QED
    BY <2>2 DEF Moved

\* The Pods, the claims of each type and the StorageClasses of each name are an
\* ObjectPool: what a run in time holds only that run removes, in a step of its own,
\* and nothing is created without room.
THEOREM PoolsImplemented == Spec => ImplementsPools
<1>1. Init => \A l \in Labels, csis \in CSIConfigs : \A kind \in PoolKinds(csis) :
                Pool(l, kind, csis)!PoolInit
  <2> SUFFICES ASSUME Init, NEW l \in Labels, NEW csis, NEW kind
               PROVE  Pool(l, kind, csis)!PoolInit
    OBVIOUS
  <2>1. Stored(l, {kind}) \ leaving = {}
    BY DEF Init, Stored
  <2>2. Held(l, kind) = {}
    BY DEF Init, Held, Sharing
  <2> QED
    BY <2>1, <2>2 DEF Pool!PoolInit
<1>2. Init => TypeOK /\ Control /\ Protected /\ OwnObjectsSurvive /\ Bounded
  BY InitInv, InitProtected, InitBounded
<1>3. TypeOK /\ Control /\ Protected /\ OwnObjectsSurvive /\ Bounded /\ [Next]_vars
        => TypeOK' /\ Control' /\ Protected' /\ OwnObjectsSurvive' /\ Bounded'
  BY NextType, NextControl, NextProtected, NextSurvive, NextBounded
<1>4. /\ TypeOK /\ Control /\ Protected /\ OwnObjectsSurvive /\ [Next]_vars
      /\ TypeOK' /\ Control' /\ OwnObjectsSurvive' /\ ResourceBounds'
      => [\A l \in Labels, csis \in CSIConfigs : enabledCSIs = csis =>
            \A kind \in PoolKinds(csis) :
                Pool(l, kind, csis)!PoolNext \/ UNCHANGED Pool(l, kind, csis)!poolVars]_vars
  BY PoolStep
<1> QED
  BY <1>1, <1>2, <1>3, <1>4, Bounds, PTL DEF Spec, ImplementsPools

-----------------------------------------------------------------------------
(* Runs come to an end, as far as safety goes.                             *)

\* The numbers that StepsLeft is made of.
LEMMA StepCounts ==
    ASSUME TypeOK
    PROVE  /\ Cardinality(Objects) \in Nat
           /\ \A S \in SUBSET Objects : /\ Cardinality(S) \in Nat
                                        /\ Cardinality(S) <= Cardinality(Objects)
                                        /\ \A o \in S : Cardinality(S \ {o}) = Cardinality(S) - 1
           /\ Len(CsiPlan) \in Nat /\ \A i \in Instances : k[i] \in 1..(Len(CsiPlan) + 1)
           /\ \A s \in 1..Len(GcStages) :
                /\ s \in Nat /\ StagesLeft(s) \in Nat
                /\ s < Len(GcStages) =>
                        StagesLeft(s) = StagesLeft(s + 1) + Cardinality(Objects) + 2
<1>1. \A S \in SUBSET Objects : IsFiniteSet(S)
  BY ObjectsFinite, FS_Subset
<1>2. Len(CsiPlan) \in Nat /\ \A i \in Instances : k[i] \in 1..(Len(CsiPlan) + 1)
  BY PlanFacts DEF TypeOK
<1>3. Cardinality(Objects) \in Nat
  BY <1>1, FS_CardinalityType
<1>4. ASSUME NEW s \in 1..Len(GcStages)
      PROVE  /\ s \in Nat /\ StagesLeft(s) \in Nat
             /\ s < Len(GcStages) => StagesLeft(s) = StagesLeft(s + 1) + Cardinality(Objects) + 2
  <2> DEFINE L == Len(GcStages)
             c == Cardinality(Objects) + 2
  <2>1. L \in {3, 4} /\ c \in Nat
    BY <1>3 DEF GcStages
  <2>2. s \in 1..L
    OBVIOUS
  <2> HIDE DEF L, c
  <2>3. (L - s) * c \in Nat /\ (s < L => (L - s) * c = (L - (s + 1)) * c + c)
    BY <2>1, <2>2
  <2>4. s < L => s + 1 \in 1..L
    BY <2>1, <2>2
  <2>5. StagesLeft(s) = (L - s) * c /\ StagesLeft(s + 1) = (L - (s + 1)) * c /\ s \in Nat
    BY <2>1, <2>2 DEF StagesLeft, L, c
  <2>6. c = Cardinality(Objects) + 2
    BY DEF c
  <2>7. s < L => (L - (s + 1)) * c \in Nat
    BY <2>1, <2>2
  <2>8. s < L => StagesLeft(s) = StagesLeft(s + 1) + c /\ StagesLeft(s + 1) \in Nat
    BY <2>3, <2>5, <2>7
  <2> QED
    BY <1>3, <2>3, <2>5, <2>6, <2>8 DEF L
<1> QED
  BY <1>1, <1>2, <1>3, <1>4, FS_Subset, FS_CardinalityType, FS_RemoveElement

\* StepsLeft, case by case, before a step and after it.
StepsAt(i) ==
    /\ pc[i] = "gcList" =>
        StepsLeft(i) = StagesLeft(stage[i]) + Cardinality(Objects) + 2 * Len(CsiPlan) + 16
    /\ pc[i] = "gcDelete" =>
        StepsLeft(i) = StagesLeft(stage[i]) + Cardinality(todo[i]) + 2 * Len(CsiPlan) + 15
    /\ pc[i] = "csiLimit" => StepsLeft(i) = 2 * Len(CsiPlan) + 14
    /\ pc[i] = "scLimit" => StepsLeft(i) = 2 * Len(CsiPlan) + 13
    /\ pc[i] = "csiCreate" => StepsLeft(i) = 2 * Len(CsiPlan) + 13 - k[i]
    /\ pc[i] = "podLimit" => StepsLeft(i) = Len(CsiPlan) + 11
    /\ pc[i] = "crd" => StepsLeft(i) = Len(CsiPlan) + 10
    /\ pc[i] = "poolCreate" => StepsLeft(i) = Len(CsiPlan) + 9
    /\ pc[i] = "podCreate" => StepsLeft(i) = Len(CsiPlan) + 8
    /\ pc[i] = "poll" => StepsLeft(i) = Len(CsiPlan) + 7
    /\ pc[i] = "measure" => StepsLeft(i) = Len(CsiPlan) + 6
    /\ pc[i] = "connect" => StepsLeft(i) = Len(CsiPlan) + 5
    /\ pc[i] = "podDelete" => StepsLeft(i) = Len(CsiPlan) + 4
    /\ pc[i] = "poolDelete" => StepsLeft(i) = Len(CsiPlan) + 3
    /\ pc[i] = "csiDelete" => StepsLeft(i) = Len(CsiPlan) + 3 - k[i]
    /\ pc[i] = "record" => StepsLeft(i) = 1
    /\ pc[i] = "idle" => StepsLeft(i) = 0
StepsTable == \A i \in Instances : StepsAt(i)
LEMMA StepsTables == StepsTable /\ StepsTable'
<1>1. ASSUME NEW i \in Instances, pc[i] \in {"gcList", "gcDelete", "csiLimit", "scLimit"}
      PROVE  StepsAt(i)
  BY <1>1 DEF StepsAt, StepsLeft
<1>2. ASSUME NEW i \in Instances, pc[i] \in {"csiCreate", "podLimit", "crd", "poolCreate"}
      PROVE  StepsAt(i)
  BY <1>2 DEF StepsAt, StepsLeft
<1>3. ASSUME NEW i \in Instances, pc[i] \in {"podCreate", "poll", "measure", "connect"}
      PROVE  StepsAt(i)
  BY <1>3 DEF StepsAt, StepsLeft
<1>4. ASSUME NEW i \in Instances,
             pc[i] \in {"podDelete", "poolDelete", "csiDelete", "record", "idle"}
      PROVE  StepsAt(i)
  BY <1>4 DEF StepsAt, StepsLeft
<1>5. StepsTable
  BY <1>1, <1>2, <1>3, <1>4 DEF StepsTable, StepsAt
<1> QED
  BY <1>5, PTL

\* StepsLeft is a number.
StepsAreNat == \A i \in Instances : StepsLeft(i) \in Nat
LEMMA StepsLeftNat == TypeOK => StepsAreNat
<1> SUFFICES ASSUME TypeOK, NEW i \in Instances PROVE StepsLeft(i) \in Nat
  BY DEF StepsAreNat
<1>1. /\ StagesLeft(stage[i]) \in Nat /\ Cardinality(todo[i]) \in Nat
      /\ Cardinality(Objects) \in Nat /\ Len(CsiPlan) \in Nat /\ k[i] \in 1..(Len(CsiPlan) + 1)
  BY StepCounts DEF TypeOK
<1>2. CASE pc[i] \in {"gcList", "gcDelete"}
  BY <1>1, <1>2, StepsTables DEF StepsTable, StepsAt
<1>3. CASE pc[i] \in {"csiCreate", "csiDelete"}
  BY <1>1, <1>3, StepsTables DEF StepsTable, StepsAt
<1>4. CASE pc[i] \in {"csiLimit", "scLimit", "podLimit", "crd", "poolCreate", "podCreate"}
  BY <1>1, <1>4, StepsTables DEF StepsTable, StepsAt
<1>5. CASE pc[i] \in {"poll", "measure", "connect", "podDelete", "poolDelete", "record", "idle"}
  BY <1>1, <1>5, StepsTables DEF StepsTable, StepsAt
<1> QED
  BY <1>2, <1>3, <1>4, <1>5 DEF TypeOK, PCs

\* The next stage, or the checks after the last one, are closer to the end.
LEMMA NextStageShrinks ==
    ASSUME TypeOK, NEW i \in Instances, pc[i] \in {"gcList", "gcDelete"}, NextStage(i),
           UNCHANGED enabledCSIs
    PROVE  StepsLeft(i)' < StepsLeft(i)
<1>1. /\ StagesLeft(stage[i]) \in Nat /\ Cardinality(todo[i]) \in Nat
      /\ Cardinality(Objects) \in Nat /\ Len(CsiPlan) \in Nat /\ CsiPlan' = CsiPlan
      /\ stage[i] < Len(GcStages) =>
            StagesLeft(stage[i]) = StagesLeft(stage[i] + 1) + Cardinality(Objects) + 2
  BY StepCounts DEF TypeOK, CsiPlan
<1>2. CASE stage[i] < Len(GcStages)
  <2>1. pc'[i] = "gcList" /\ stage'[i] = stage[i] + 1
    BY <1>2 DEF NextStage, Goto, TypeOK
  <2>2. StepsLeft(i)' = StagesLeft(stage[i] + 1) + Cardinality(Objects) + 2 * Len(CsiPlan) + 16
    BY <1>1, <2>1, StepsTables DEF StepsTable, StepsAt
  <2>3. StagesLeft(stage[i] + 1) \in Int
    <3>1. stage[i] + 1 \in 1..Len(GcStages)
      BY <1>2 DEF TypeOK, GcStages
    <3> QED
      BY <3>1, StepCounts
  <2>4. StepsLeft(i) >= StagesLeft(stage[i]) + 2 * Len(CsiPlan) + 15
    <3>1. CASE pc[i] = "gcList"
      BY <1>1, <3>1, StepsTables DEF StepsTable, StepsAt
    <3>2. CASE pc[i] = "gcDelete"
      BY <1>1, <3>2, StepsTables DEF StepsTable, StepsAt
    <3> QED
      BY <3>1, <3>2
  <2>5. StepsLeft(i) \in Nat
    BY StepsLeftNat DEF StepsAreNat
  <2>6. StepsLeft(i)' < StagesLeft(stage[i]) + 2 * Len(CsiPlan) + 15
    BY <1>1, <1>2, <2>2, <2>3
  <2>7. StepsLeft(i)' \in Int
    BY <1>1, <2>2, <2>3
  <2> QED
    BY <1>1, <2>4, <2>5, <2>6, <2>7
<1>3. CASE ~(stage[i] < Len(GcStages))
  <2>1. pc'[i] \in {"csiLimit", "record"}
    BY <1>3 DEF NextStage, Goto, TypeOK
  <2>2. StepsLeft(i)' <= 2 * Len(CsiPlan) + 14 /\ StepsLeft(i)' \in Int
    BY <1>1, <2>1, StepsTables DEF StepsTable, StepsAt
  <2>3. StepsLeft(i) >= 2 * Len(CsiPlan) + 15 /\ StepsLeft(i) \in Int
    BY <1>1, StepsTables DEF StepsTable, StepsAt
  <2> QED
    BY <1>1, <2>2, <2>3
<1> QED
  BY <1>2, <1>3

\* A step of a run of its own brings it closer to its end.
LEMMA OwnStepShrinks ==
    ASSUME TypeOK, Control, NEW i \in Instances, pc[i] # "idle", RunStep(i) \/ GcList(i),
           UNCHANGED enabledCSIs
    PROVE  StepsLeft(i)' < StepsLeft(i)
<1> USE DEF Goto, Fail, Return, ReturnVia, cluster, gc
<1> DEFINE plan == Len(CsiPlan)
<1>1. /\ StagesLeft(stage[i]) \in Nat /\ Cardinality(todo[i]) \in Nat /\ todo[i] \in SUBSET Objects
      /\ Cardinality(Objects) \in Nat /\ plan \in Nat /\ CsiPlan' = CsiPlan
      /\ k[i] \in 1..(plan + 1)
  BY StepCounts DEF TypeOK, CsiPlan
<1> HIDE DEF plan
<1>2. CASE GcList(i)
  <2>1. todo'[i] \in SUBSET Objects
    BY <1>2 DEF GcList, Labelled, TypeOK
  <2>2. Cardinality(todo'[i]) \in Nat /\ Cardinality(todo'[i]) <= Cardinality(Objects)
    BY <2>1, StepCounts
  <2>3. pc[i] = "gcList" /\ pc'[i] = "gcDelete" /\ stage'[i] = stage[i]
    BY <1>2 DEF GcList, TypeOK
  <2> QED
    BY <1>1, <2>2, <2>3, StepsTables DEF StepsTable, StepsAt, plan
<1>3. ASSUME NEW o \in Objects, GcDelete(i, o) PROVE StepsLeft(i)' < StepsLeft(i)
  <2>1. Cardinality(todo'[i]) = Cardinality(todo[i]) - 1
    BY <1>1, <1>3, StepCounts DEF GcDelete, TypeOK
  <2>2. pc[i] = "gcDelete" /\ pc'[i] = "gcDelete" /\ stage'[i] = stage[i]
    BY <1>3 DEF GcDelete
  <2> QED
    BY <1>1, <2>1, <2>2, StepsTables DEF StepsTable, StepsAt, plan
<1>4. CASE GcListFails(i) \/ GcDone(i)
  BY <1>4, NextStageShrinks DEF GcListFails, GcDone
<1> USE DEF LimitListFails, LimitListOk
<1>5. CASE CheckCSILimit(i) \/ CheckSCLimit(i)
  <2>1. k[i] = 1
    BY <1>5 DEF CheckCSILimit, CheckSCLimit, Control
  <2>2. \/ pc[i] = "csiLimit" /\ pc'[i] \in {"scLimit", "csiCreate", "record"} /\ k'[i] = 1
        \/ pc[i] = "scLimit" /\ pc'[i] \in {"csiCreate", "record"} /\ k'[i] = 1
    BY <1>5, <2>1 DEF CheckCSILimit, CheckSCLimit, TypeOK
  <2> QED
    BY <1>1, <2>2, StepsTables DEF StepsTable, StepsAt, plan
<1>6. CASE CreateCSI(i) \/ CreatedCSI(i)
  <2>1. /\ pc[i] = "csiCreate"
        /\ \/ k[i] <= plan /\ pc'[i] = "csiCreate" /\ k'[i] = k[i] + 1
           \/ pc'[i] = "record"
           \/ k[i] > plan /\ pc'[i] = "podLimit"
    BY <1>1, <1>6 DEF CreateCSI, CreatedCSI, TypeOK, plan
  <2> QED
    BY <1>1, <2>1, StepsTables DEF StepsTable, StepsAt, plan
<1>7. CASE CheckPodLimit(i) \/ CheckCRD(i)
  <2>1. \/ pc[i] = "podLimit" /\ pc'[i] \in {"crd", "podCreate"}
        \/ pc[i] = "crd" /\ pc'[i] = "poolCreate"
        \/ pc[i] \in {"podLimit", "crd"} /\ pc'[i] = "csiDelete" /\ k'[i] = 1
    BY <1>7 DEF CheckPodLimit, CheckCRD, TypeOK
  <2> QED
    BY <1>1, <2>1, StepsTables DEF StepsTable, StepsAt, plan
<1>8. CASE CreateNodePool(i) \/ CreatePod(i)
  <2>1. \/ pc[i] = "poolCreate" /\ pc'[i] = "podCreate"
        \/ pc[i] = "podCreate" /\ pc'[i] = "poll"
        \/ pc[i] \in {"poolCreate", "podCreate"} /\ pc'[i] = "csiDelete" /\ k'[i] = 1
    BY <1>8 DEF CreateNodePool, CreatePod, Create, TypeOK
  <2> QED
    BY <1>1, <2>1, StepsTables DEF StepsTable, StepsAt, plan
<1>9. CASE PollRunning(i) \/ PollExpires(i) \/ Measure(i) \/ Connect(i)
  <2>1. \/ pc[i] = "poll" /\ pc'[i] \in {"measure", "podDelete"}
        \/ pc[i] = "measure" /\ pc'[i] \in {"connect", "podDelete"}
        \/ pc[i] = "connect" /\ pc'[i] = "podDelete"
    BY <1>9 DEF PollRunning, PollExpires, Measure, Connect, TypeOK
  <2> QED
    BY <1>1, <2>1, StepsTables DEF StepsTable, StepsAt, plan
<1>10. CASE DeletePod(i) \/ DeleteNodePool(i)
  <2>1. /\ k[i] = 1 /\ k'[i] = 1
        /\ \/ pc[i] = "podDelete" /\ pc'[i] \in {"poolDelete", "csiDelete"}
           \/ pc[i] = "poolDelete" /\ pc'[i] = "csiDelete"
    BY <1>10 DEF DeletePod, DeleteNodePool, Delete, TypeOK, Control
  <2> QED
    BY <1>1, <2>1, StepsTables DEF StepsTable, StepsAt, plan
<1>11. CASE DeleteCSI(i) \/ DeletedCSI(i) \/ Record(i)
  <2>1. \/ /\ pc[i] = "csiDelete" /\ pc'[i] = "csiDelete"
           /\ k[i] <= plan /\ k'[i] = k[i] + 1
        \/ pc[i] = "csiDelete" /\ pc'[i] = "record"
        \/ pc[i] = "record" /\ pc'[i] = "idle"
    BY <1>1, <1>11 DEF DeleteCSI, DeletedCSI, Record, Reset, TypeOK, plan
  <2> QED
    BY <1>1, <2>1, StepsTables DEF StepsTable, StepsAt, plan
<1>12. ~StartRun(i)
  BY DEF StartRun
<1> QED
  BY <1>2, <1>3, <1>4, <1>5, <1>6, <1>7, <1>8, <1>9, <1>10, <1>11, <1>12 DEF RunStep

\* A step of a run, its own or another's, and of the cluster brings it no further
\* from its end.
LEMMA StepComesCloser ==
    ASSUME TypeOK, TypeOK', Control, Next, NEW i \in Instances, pc[i] # "idle"
    PROVE  ComesCloser(i)
<1> USE DEF Goto, Fail, Return, ReturnVia, cluster, gc
<1>1. /\ StepsLeft(i) \in Nat /\ CsiPlan' = CsiPlan /\ UNCHANGED enabledCSIs
      /\ time[i] \in {"ample", "ending", "over"}
  BY StepsLeftNat DEF StepsAreNat, Next, CsiPlan, TypeOK
<1>2. StepsLeft(i)' \in Nat
  <2>1. (TypeOK => StepsAreNat)'
    BY StepsLeftNat, PTL
  <2> QED
    BY <2>1 DEF StepsAreNat
<1>3. ASSUME NEW j \in Instances, RunStep(j) \/ GcList(j)
      PROVE  /\ pc'[i] # "idle" => time'[i] = time[i]
             /\ pc'[i] = "idle" => time'[i] = "over" \/ time'[i] = time[i]
             /\ j # i => /\ pc'[i] = pc[i] /\ stage'[i] = stage[i] /\ todo'[i] = todo[i]
                         /\ k'[i] = k[i] /\ time'[i] = time[i]
  <2> DEFINE Apart == /\ pc'[i] # "idle" => time'[i] = time[i]
                      /\ pc'[i] = "idle" => time'[i] = "over" \/ time'[i] = time[i]
                      /\ j # i => /\ pc'[i] = pc[i] /\ stage'[i] = stage[i] /\ todo'[i] = todo[i]
                                  /\ k'[i] = k[i] /\ time'[i] = time[i]
  <2>1. CASE StartRun(j) \/ GcList(j) \/ Record(j)
    BY <2>1 DEF StartRun, GcList, Record, Reset, TypeOK
  <2>2. CASE GcListFails(j) \/ GcDone(j)
    BY <2>2 DEF GcListFails, GcDone, NextStage, TypeOK
  <2>3. ASSUME NEW o \in Objects, GcDelete(j, o) PROVE Apart
    BY <2>3 DEF GcDelete, TypeOK
  <2>4. CASE CheckCSILimit(j) \/ CheckSCLimit(j) \/ CheckPodLimit(j)
    <3>1. CASE CheckCSILimit(j)
      BY <3>1 DEF CheckCSILimit, LimitListFails, LimitListOk, TypeOK
    <3>2. CASE CheckSCLimit(j)
      BY <3>2 DEF CheckSCLimit, LimitListFails, LimitListOk, TypeOK
    <3>3. CASE CheckPodLimit(j)
      BY <3>3 DEF CheckPodLimit, LimitListFails, LimitListOk, TypeOK
    <3> QED
      BY <2>4, <3>1, <3>2, <3>3
  <2>5. CASE CreateCSI(j) \/ CreatedCSI(j) \/ CheckCRD(j) \/ CreateNodePool(j) \/ CreatePod(j)
    BY <2>5 DEF CreateCSI, CreatedCSI, CheckCRD, CreateNodePool, CreatePod, Create, TypeOK
  <2>6. CASE PollRunning(j) \/ PollExpires(j) \/ Measure(j) \/ Connect(j)
    BY <2>6 DEF PollRunning, PollExpires, Measure, Connect, TypeOK
  <2>7. CASE DeletePod(j) \/ DeleteNodePool(j) \/ DeleteCSI(j) \/ DeletedCSI(j)
    BY <2>7 DEF DeletePod, DeleteNodePool, Delete, DeleteCSI, DeletedCSI, TypeOK
  <2> QED
    BY <1>3, <2>1, <2>2, <2>3, <2>4, <2>5, <2>6, <2>7 DEF RunStep
<1>4. RunStep(i) \/ GcList(i) => StepsLeft(i)' < StepsLeft(i)
  BY <1>1, OwnStepShrinks
<1>5. ASSUME UNCHANGED <<pc, stage, todo, k>> PROVE StepsLeft(i)' <= StepsLeft(i)
  <2>1. StepsLeft(i)' = StepsLeft(i)
    BY <1>1, <1>5 DEF StepsLeft
  <2> QED
    BY <1>1, <2>1
<1>6. ASSUME NEW j \in Instances, RunStep(j) \/ GcList(j) PROVE ComesCloser(i)
  <2>1. CASE j = i
    BY <1>1, <1>2, <1>3, <1>4, <1>6, <2>1 DEF ComesCloser
  <2>2. CASE j # i
    <3>1. StepsLeft(i)' = StepsLeft(i) /\ time'[i] = time[i]
      BY <1>1, <1>3, <1>6, <2>2 DEF StepsLeft
    <3> QED
      BY <1>1, <1>4, <3>1 DEF ComesCloser
  <2> QED
    BY <2>1, <2>2
<1>7. ASSUME NEW j \in Instances, Expire(j) PROVE ComesCloser(i)
  <2>1. /\ UNCHANGED <<pc, stage, todo, k>>
        /\ time'[i] = time[i] \/ (time[i] = "ample" /\ time'[i] = "ending")
            \/ (time[i] = "ending" /\ time'[i] = "over")
    BY <1>7 DEF Expire, TypeOK
  <2> QED
    BY <1>1, <1>4, <1>5, <2>1 DEF ComesCloser
<1>8. ASSUME NEW j \in Instances, Crash(j) PROVE ComesCloser(i)
  <2>1. \/ pc'[i] = "idle" /\ time'[i] = "over"
        \/ /\ pc'[i] = pc[i] /\ stage'[i] = stage[i] /\ todo'[i] = todo[i]
           /\ k'[i] = k[i] /\ time'[i] = time[i]
    BY <1>8 DEF Crash, Reset, TypeOK
  <2>2. StepsLeft(i)' <= StepsLeft(i)
    BY <1>1, <2>1 DEF StepsLeft
  <2> QED
    BY <1>1, <1>4, <2>1, <2>2 DEF ComesCloser
<1>9. ASSUME NEW o \in Objects, GrowOld(o) \/ Gone(o) \/ Land(o) PROVE ComesCloser(i)
  <2>1. UNCHANGED <<pc, stage, todo, k, time>>
    BY <1>9 DEF GrowOld, Gone, Land
  <2> QED
    BY <1>1, <1>4, <1>5, <2>1 DEF ComesCloser
<1> QED
  BY <1>6, <1>7, <1>8, <1>9 DEF Next

\* A run takes a number of steps that the objects there may be and the enabled CSI
\* types bound, and its context does not come back to life.
THEOREM RunsEnd == Spec => RunsShrink
<1>1. TypeOK /\ Control /\ TypeOK' /\ [Next]_vars
        => [\A i \in Instances : pc[i] # "idle" => ComesCloser(i)]_vars
  BY StepComesCloser
<1> QED
  BY <1>1, Types, PTL DEF Spec, RunsShrink

-----------------------------------------------------------------------------
(* NodePools. Another instance may delete the NodePool of a run at any     *)
(* time. Nothing else can: a run that is alone keeps it.                   *)

Alone == \A i, j \in Instances : i = j

BeforePool == {"csiLimit", "scLimit", "csiCreate", "podLimit", "crd", "poolCreate"}
WithPool == {"podCreate", "poll", "measure", "connect", "podDelete", "poolDelete"}

\* Nothing of a run's timestamp is a NodePool before its create.
NoPoolYet ==
    \A i \in Instances : pc[i] \in BeforePool =>
        \A o \in objs \cup late : o.stamp = stamp[i] => o.kind # "pool"

\* Alone, a run's NodePool is created once and stays until its own deletion.
LEMMA NextAlone ==
    ASSUME Alone, TypeOK, NoPoolYet, NodePoolSurvives, [Next]_vars
    PROVE  NoPoolYet' /\ NodePoolSurvives'
<1> DEFINE Absent(i) == pc[i] \in BeforePool =>
                \A o \in objs \cup late : o.stamp = stamp[i] => o.kind # "pool"
           Kept(i) == /\ time[i] = "ample" /\ EnableNodeProvisioningTest
                      /\ pc[i] \in WithPool
                      => Own(i, "pool") \in objs \ leaving
<1> SUFFICES ASSUME NEW i \in Instances PROVE Absent(i)' /\ Kept(i)'
  BY DEF NoPoolYet, NodePoolSurvives, WithPool
<1>1. Absent(i) /\ Kept(i)
  BY DEF NoPoolYet, NodePoolSurvives, WithPool
<1> USE DEF cluster, gc, BeforePool, WithPool
<1>2. /\ pc \in [Instances -> PCs] /\ DOMAIN time = Instances
      /\ leaving \subseteq objs
  BY DEF TypeOK
<1>3. CASE UNCHANGED vars
  <2>1. UNCHANGED <<objs, leaving, late, pc, time, stamp>>
    BY <1>3 DEF vars, state
  <2> QED
    BY <1>1, <2>1 DEF Own
<1>4. ASSUME pc'[i] \notin BeforePool \cup WithPool
      PROVE  Absent(i)' /\ Kept(i)'
  BY <1>4
<1>5. ASSUME GcListFails(i) \/ GcDone(i) PROVE Absent(i)' /\ Kept(i)'
  <2>1. UNCHANGED <<objs, late>> /\ NextStage(i)
    BY <1>5 DEF GcListFails, GcDone
  <2>2. \/ pc'[i] \in {"gcList", "record"}
        \/ \E t \in Stamps : Fresh(t) /\ stamp'[i] = t /\ pc'[i] = "csiLimit"
    BY <1>2, <2>1 DEF NextStage, Goto, TypeOK
  <2> QED
    BY <2>1, <2>2 DEF Fresh
<1>6. ASSUME \/ CheckCSILimit(i) \/ CheckSCLimit(i) \/ CreatedCSI(i)
             \/ CheckPodLimit(i) \/ CheckCRD(i)
      PROVE  Absent(i)' /\ Kept(i)'
  <2>1. UNCHANGED <<objs, late, leaving, stamp, time>> /\ pc[i] \in BeforePool
    BY <1>6 DEF CheckCSILimit, CheckSCLimit, CreatedCSI, CheckPodLimit, CheckCRD,
                LimitListFails, LimitListOk
  <2>2. EnableNodeProvisioningTest => pc'[i] \notin WithPool
    BY <1>2, <1>6 DEF CheckCSILimit, CheckSCLimit, CreatedCSI, CheckPodLimit, CheckCRD,
                LimitListFails, LimitListOk, ReturnVia, Goto
  <2> QED
    BY <1>1, <2>1, <2>2
<1>7. ASSUME CreateCSI(i) PROVE Absent(i)' /\ Kept(i)'
  <2>1. /\ (objs \cup late)' \subseteq objs \cup late \cup {Own(i, CsiPlan[k[i]])}
        /\ UNCHANGED stamp /\ pc[i] = "csiCreate"
        /\ pc'[i] \in {"csiCreate", "record"}
    BY <1>2, <1>7 DEF CreateCSI, LoseCreate, ReturnVia, Goto
  <2>2. k[i] \in 1..Len(CsiPlan)
    BY <1>7 DEF CreateCSI, TypeOK
  <2>3. CsiPlan[k[i]] # "pool"
    BY <2>2, PlanFacts DEF TypeOK, PVCKinds, CSITypes
  <2> QED
    BY <1>1, <2>1, <2>3 DEF Own
<1>8. ASSUME CreateNodePool(i) PROVE Absent(i)' /\ Kept(i)'
  <2>1. \/ pc'[i] = "csiDelete"
        \/ /\ pc'[i] = "podCreate" /\ objs' = objs \cup {Own(i, "pool")}
           /\ UNCHANGED <<leaving, stamp>>
    BY <1>2, <1>8 DEF CreateNodePool, Create, ReturnVia, Goto
  <2>2. Own(i, "pool") \notin leaving
    BY <1>1, <1>2, <1>8 DEF CreateNodePool, Own
  <2> QED
    BY <1>4, <2>1, <2>2 DEF Own
<1>9. ASSUME \/ CreatePod(i) \/ PollRunning(i) \/ PollExpires(i) \/ Measure(i)
             \/ Connect(i) \/ DeletePod(i)
      PROVE  Absent(i)' /\ Kept(i)'
  <2>1. /\ pc[i] \in WithPool /\ UNCHANGED <<stamp, time>>
        /\ pc'[i] \notin BeforePool
    BY <1>2, <1>9 DEF CreatePod, Create, PollRunning, PollExpires, Measure, Connect,
                      DeletePod, Delete, ReturnVia, Goto
  <2>2. objs \subseteq objs' /\ leaving' \subseteq leaving \cup {Own(i, "pod")}
    BY <1>9 DEF CreatePod, Create, LoseCreate, PollRunning, PollExpires, Measure,
                Connect, DeletePod, Delete, LoseDelete, Remove, Own
  <2> QED
    BY <1>1, <2>1, <2>2 DEF Own
<1>10. ASSUME Expire(i) PROVE Absent(i)' /\ Kept(i)'
  BY <1>1, <1>2, <1>10 DEF Expire, Own
<1>11. ASSUME NEW o \in Objects, GrowOld(o) \/ Gone(o) \/ Land(o)
       PROVE  Absent(i)' /\ Kept(i)'
  <2>1. /\ UNCHANGED <<pc, time, stamp>>
        /\ (objs \cup late)' \subseteq objs \cup late
        /\ objs \ leaving \subseteq objs' \ leaving'
    BY <1>2, <1>11 DEF GrowOld, Gone, Land
  <2> QED
    BY <1>1, <2>1 DEF Own
<1>12. ASSUME \/ StartRun(i) \/ (\E o \in Objects : GcDelete(i, o)) \/ GcList(i)
              \/ DeleteNodePool(i) \/ DeleteCSI(i) \/ DeletedCSI(i)
              \/ Record(i) \/ Crash(i)
       PROVE  Absent(i)' /\ Kept(i)'
  <2>1. pc'[i] \in {"gcList", "gcDelete", "csiDelete", "record", "idle"}
    BY <1>2, <1>12 DEF StartRun, GcDelete, GcList, DeleteNodePool, DeleteCSI, DeletedCSI,
                       Delete, Record, Crash, Reset, Goto
  <2> QED
    BY <1>4, <2>1
<1> QED
  <2>1. CASE RunStep(i)
    BY <2>1, <1>5, <1>6, <1>7, <1>8, <1>9, <1>12, Zenon DEF RunStep
  <2>2. CASE Next
    BY <2>1, <2>2, <1>10, <1>11, <1>12 DEF Next, Alone
  <2> QED
    BY <1>3, <2>2

\* A sole instance keeps its NodePool while its time is ample: what breaks
\* NodePoolSurvives is other instances' garbage collection and nothing else.
THEOREM SoleNodePoolSurvives == Alone => (Spec => []NodePoolSurvives)
<1> SUFFICES ASSUME Alone PROVE Spec => []NodePoolSurvives
  OBVIOUS
<1>1. Init => NoPoolYet /\ NodePoolSurvives
  BY DEF Init, NoPoolYet, NodePoolSurvives, BeforePool
<1>2. TypeOK /\ NoPoolYet /\ NodePoolSurvives /\ [Next]_vars
        => NoPoolYet' /\ NodePoolSurvives'
  BY NextAlone
<1> QED
  BY <1>1, <1>2, TypeCorrect, PTL DEF Spec

=============================================================================
