----------------------- MODULE APIServerChecker_proofs -----------------------
(***************************************************************************)
(* Proofs about APIServerChecker, for any number of instances and names    *)
(* and for every configuration its validation accepts.                     *)
(***************************************************************************)
EXTENDS APIServerChecker, FiniteSetTheorems, TLAPS

-----------------------------------------------------------------------------
(* Types.                                                                  *)

\* Every step keeps the types of the variables.
LEMMA TypeStep == TypeOK /\ [Next]_vars => TypeOK'
<1> SUFFICES ASSUME TypeOK, [Next]_vars PROVE TypeOK'
  OBVIOUS
<1> USE InstancesAssumption, NamesAssumption, ConfigAssumption,
        EnvironmentAssumption
<1> USE DEF TypeOK, cluster, run, PCs, Replies, Results, OldAge, Least,
           DeletePCs
<1>1. CASE UNCHANGED vars
  BY <1>1 DEF vars
<1>2. ASSUME NEW i \in Instances, Proceed(i)
      PROVE  TypeOK'
  <2>1. CASE StartRun(i)
    BY <2>1 DEF StartRun
  <2>2. ASSUME NEW n \in Names, GcNext(i, n) PROVE TypeOK'
    BY <2>2 DEF GcNext, Call
  <2>3. CASE GcDone(i)
    BY <2>3 DEF GcDone
  <2>4. CASE GcDeleteReturns(i)
    BY <2>4 DEF GcDeleteReturns, Leave
  <2>5. CASE LimitReached(i)
    BY <2>5 DEF LimitReached
  <2>6. CASE LimitOk(i)
    BY <2>6 DEF LimitOk
  <2>7. ASSUME NEW n \in Names, StartCreate(i, n) PROVE TypeOK'
    BY <2>7 DEF StartCreate, Call
  <2>8. CASE CreateReturns(i)
    BY <2>8 DEF CreateReturns, Call
  <2>9. CASE GetReturns(i)
    BY <2>9 DEF GetReturns, Call
  <2>10. CASE GetNotFound(i)
    BY <2>10 DEF GetNotFound, Defer, Call
  <2>11. CASE DeleteReturns(i)
    BY <2>11 DEF DeleteReturns, Defer, Call
  <2>12. CASE DeferredReturns(i)
    BY <2>12 DEF DeferredReturns, Leave
  <2>13. CASE Record(i)
    BY <2>13 DEF Record
  <2>14. QED
    BY <1>2, <2>1, <2>2, <2>3, <2>4, <2>5, <2>6, <2>7, <2>8, <2>9, <2>10,
       <2>11, <2>12, <2>13 DEF Proceed
<1>3. ASSUME NEW i \in Instances, GcListOk(i) PROVE TypeOK'
  BY <1>3 DEF GcListOk
<1>4. ASSUME NEW i \in Instances, NEW e \in Errors, CallFails(i, e)
      PROVE  TypeOK'
  <2>1. CASE GcListFails(i, e)
    BY <2>1 DEF GcListFails
  <2>2. CASE GcDeleteFails(i, e)
    BY <2>2 DEF GcDeleteFails, GiveUpDelete, Leave
  <2>3. CASE LimitFails(i, e)
    BY <2>3 DEF LimitFails
  <2>4. CASE CreateFails(i, e)
    BY <2>4 DEF CreateFails, GiveUpCreate, Leave, CreateCode
  <2>5. CASE GetFails(i, e)
    BY <2>5 DEF GetFails, Defer, Call, GetCode
  <2>6. CASE DeleteFails(i, e)
    BY <2>6 DEF DeleteFails, GiveUpDelete, Defer, Call, DeleteCode
  <2>7. CASE DeferredFails(i, e)
    BY <2>7 DEF DeferredFails, GiveUpDelete, Leave
  <2>8. QED
    BY <1>4, <2>1, <2>2, <2>3, <2>4, <2>5, <2>6, <2>7 DEF CallFails
<1>5. ASSUME NEW i \in Instances, ServeCreate(i) PROVE TypeOK'
  BY <1>5 DEF ServeCreate, Store
<1>6. ASSUME NEW i \in Instances, ServeDelete(i) PROVE TypeOK'
  BY <1>6 DEF ServeDelete
<1>7. ASSUME NEW i \in Instances, Crash(i) PROVE TypeOK'
  BY <1>7 DEF Crash, GiveUpCreate, GiveUpDelete, Leave, DeletePCs
<1>8. ASSUME NEW i \in Instances, Restart(i) PROVE TypeOK'
  BY <1>8 DEF Restart
<1>9. ASSUME NEW n \in Names, Land(n) PROVE TypeOK'
  BY <1>9 DEF Land, Store
<1>10. ASSUME NEW n \in Names, Doom(n) PROVE TypeOK'
  BY <1>10 DEF Doom
<1>11. CASE Tick
  BY <1>11 DEF Tick
<1>12. QED
  BY <1>1, <1>2, <1>3, <1>4, <1>5, <1>6, <1>7, <1>8, <1>9, <1>10, <1>11
     DEF Next

\* The variables keep their types: among them, no budget is ever negative and
\* no result has a code the checker does not define.
THEOREM TypeCorrect == Spec => []TypeOK
<1>1. Init => TypeOK
  BY ConfigAssumption, EnvironmentAssumption
     DEF Init, TypeOK, PCs, Replies, Results, OldAge, DeletePCs
<1>2. QED
  BY <1>1, TypeStep, PTL DEF Spec

-----------------------------------------------------------------------------
(* The limit. An instance that has passed the check counts as if its       *)
(* ConfigMap existed, and so does a create in flight: then only LimitOk    *)
(* adds to the sum, and it finds less than MaxObjects ConfigMaps.          *)

LimitInv ==
    /\ Cardinality(landing) <= MaxLanding
    /\ Cardinality(cms \cup landing) + Cardinality(Pending) <= Cap

\* Two sets that shrink have no more elements together.
LEMMA ShrinkSum ==
    ASSUME NEW S, NEW P, IsFiniteSet(S), IsFiniteSet(P),
           NEW T \in SUBSET S, NEW Q \in SUBSET P
    PROVE  Cardinality(T) + Cardinality(Q) <= Cardinality(S) + Cardinality(P)
<1>1. Cardinality(T) <= Cardinality(S) /\ IsFiniteSet(T)
  BY FS_Subset
<1>2. Cardinality(Q) <= Cardinality(P) /\ IsFiniteSet(Q)
  BY FS_Subset
<1>3. QED
  BY <1>1, <1>2, FS_CardinalityType

\* Nor have they when one element leaves the second as one enters the first.
LEMMA MoveSum ==
    ASSUME NEW S, NEW P, IsFiniteSet(S), IsFiniteSet(P), NEW n, NEW i \in P,
           NEW T \in SUBSET (S \cup {n}), NEW Q \in SUBSET (P \ {i})
    PROVE  Cardinality(T) + Cardinality(Q) <= Cardinality(S) + Cardinality(P)
<1>1. /\ IsFiniteSet(S \cup {n})
      /\ Cardinality(S \cup {n}) <= Cardinality(S) + 1
  <2>1. Cardinality(S) \in Nat
    BY FS_CardinalityType
  <2>2. /\ IsFiniteSet(S \cup {n})
        /\ Cardinality(S \cup {n})
             = IF n \in S THEN Cardinality(S) ELSE Cardinality(S) + 1
    BY FS_AddElement, Zenon
  <2>3. QED
    BY <2>1, <2>2
<1>2. IsFiniteSet(P \ {i}) /\ Cardinality(P \ {i}) = Cardinality(P) - 1
  BY FS_RemoveElement
<1>3. /\ Cardinality(T) + Cardinality(Q)
           <= Cardinality(S \cup {n}) + Cardinality(P \ {i})
  BY <1>1, <1>2, ShrinkSum
<1>4. IsFiniteSet(T) /\ IsFiniteSet(Q)
  BY <1>1, <1>2, FS_Subset
<1>5. QED
  BY <1>1, <1>2, <1>3, <1>4, FS_CardinalityType

\* The sets the invariant counts are finite.
LEMMA CountedFinite ==
    ASSUME TypeOK
    PROVE  /\ IsFiniteSet(cms) /\ IsFiniteSet(landing)
           /\ IsFiniteSet(cms \cup landing) /\ IsFiniteSet(Pending)
           /\ Cardinality(cms) \in Nat /\ Cardinality(landing) \in Nat
           /\ Cardinality(cms \cup landing) \in Nat
           /\ Cardinality(Pending) \in Nat
           /\ Cardinality(Pending) <= Cardinality(Instances)
           /\ Cardinality(Instances) \in Nat
           /\ Cardinality(cms \cup landing)
                <= Cardinality(cms) + Cardinality(landing)
<1>1. /\ cms \subseteq Names /\ landing \subseteq Names
      /\ Pending \subseteq Instances
  BY DEF TypeOK, Pending
<1>2. IsFiniteSet(cms) /\ IsFiniteSet(landing) /\ IsFiniteSet(Pending)
  BY <1>1, FS_Subset, NamesAssumption, InstancesAssumption
<1>3. Cardinality(Pending) <= Cardinality(Instances)
  BY <1>1, FS_Subset, InstancesAssumption
<1>4. /\ IsFiniteSet(cms \cup landing)
      /\ Cardinality(cms \cup landing)
           = Cardinality(cms) + Cardinality(landing)
               - Cardinality(cms \cap landing)
  BY <1>2, FS_Union
<1>5. Cardinality(cms \cap landing) \in Nat
  BY <1>2, FS_Intersection, FS_CardinalityType
<1>6. /\ Cardinality(cms) \in Nat /\ Cardinality(landing) \in Nat
      /\ Cardinality(cms \cup landing) \in Nat
      /\ Cardinality(Pending) \in Nat /\ Cardinality(Instances) \in Nat
  BY <1>2, <1>4, InstancesAssumption, FS_CardinalityType
<1>7. Cardinality(cms \cup landing) <= Cardinality(cms) + Cardinality(landing)
  BY <1>4, <1>5, <1>6
<1>8. QED
  BY <1>2, <1>3, <1>4, <1>6, <1>7

\* A step that adds nothing to what is counted keeps the invariant.
LEMMA LimitKept ==
    ASSUME TypeOK, TypeOK', LimitInv,
           (cms \cup landing)' \subseteq cms \cup landing,
           Pending' \subseteq Pending,
           landing' \subseteq landing
    PROVE  LimitInv'
<1>1. Cardinality((cms \cup landing)') + Cardinality(Pending')
        <= Cardinality(cms \cup landing) + Cardinality(Pending)
  BY CountedFinite, ShrinkSum
<1>2. Cardinality(landing') <= Cardinality(landing)
  BY CountedFinite, FS_Subset
<1>3. /\ Cardinality((cms \cup landing)') \in Nat
      /\ Cardinality(Pending') \in Nat
      /\ Cardinality(landing') \in Nat
  <2>1. (TypeOK => /\ Cardinality(cms \cup landing) \in Nat
                   /\ Cardinality(Pending) \in Nat
                   /\ Cardinality(landing) \in Nat)'
    BY CountedFinite, PTL
  <2>2. QED
    BY <2>1
<1>4. QED
  BY <1>1, <1>2, <1>3, CountedFinite, ConfigAssumption, EnvironmentAssumption
     DEF LimitInv, Cap

\* Nor does one in which a counted instance gives way to its ConfigMap.
LEMMA LimitMoved ==
    ASSUME TypeOK, TypeOK', LimitInv, NEW n, NEW i \in Pending,
           (cms \cup landing)' \subseteq (cms \cup landing) \cup {n},
           Pending' \subseteq Pending \ {i},
           Cardinality(landing)' <= MaxLanding
    PROVE  LimitInv'
<1>1. Cardinality((cms \cup landing)') + Cardinality(Pending')
        <= Cardinality(cms \cup landing) + Cardinality(Pending)
  BY CountedFinite, MoveSum
<1>2. /\ Cardinality((cms \cup landing)') \in Nat
      /\ Cardinality(Pending') \in Nat
  <2>1. (TypeOK => /\ Cardinality(cms \cup landing) \in Nat
                   /\ Cardinality(Pending) \in Nat)'
    BY CountedFinite, PTL
  <2>2. QED
    BY <2>1
<1>3. QED
  BY <1>1, <1>2, CountedFinite, ConfigAssumption, EnvironmentAssumption
     DEF LimitInv, Cap

\* Giving up a create adds at most that create to the ones in flight, within
\* their bound.
LEMMA GiveUpCreateCounted ==
    ASSUME TypeOK, LimitInv, NEW i \in Instances, GiveUpCreate(i)
    PROVE  /\ landing' = landing \/ (reply[i] = "none" /\ landing' = landing \cup {cm[i]})
           /\ Cardinality(landing') <= MaxLanding
<1>1. landing' = landing \/ (reply[i] = "none" /\ landing' = landing \cup {cm[i]})
  BY DEF GiveUpCreate
<1>2. CASE landing' = landing
  BY <1>1, <1>2 DEF LimitInv
<1>3. CASE landing' # landing
  <2>1. Cardinality(landing) < MaxLanding /\ landing' = landing \cup {cm[i]}
    BY <1>3 DEF GiveUpCreate
  <2>2. /\ Cardinality(landing') = IF cm[i] \in landing THEN Cardinality(landing)
                                     ELSE Cardinality(landing) + 1
    BY <2>1, CountedFinite, FS_AddElement, Zenon
  <2>3. QED
    BY <1>1, <2>1, <2>2, CountedFinite, EnvironmentAssumption
<1>4. QED
  BY <1>2, <1>3

\* Every step keeps the invariant.
LEMMA LimitStep == TypeOK /\ LimitInv /\ [Next]_vars => LimitInv'
<1> SUFFICES ASSUME TypeOK, LimitInv, [Next]_vars PROVE LimitInv'
  OBVIOUS
<1>0. TypeOK'
  BY TypeStep
<1> USE <1>0
<1>1. CASE UNCHANGED vars
  BY <1>1, LimitKept DEF vars, Pending
<1>2. ASSUME NEW i \in Instances, Proceed(i) PROVE LimitInv'
  <2>1. CASE StartRun(i)
    BY <2>1, LimitKept DEF StartRun, Pending, cluster, TypeOK
  <2>2. ASSUME NEW n \in Names, GcNext(i, n) PROVE LimitInv'
    BY <2>2, LimitKept DEF GcNext, Call, Pending, cluster, TypeOK
  <2>3. CASE GcDone(i)
    BY <2>3, LimitKept DEF GcDone, Pending, cluster, TypeOK
  <2>4. CASE GcDeleteReturns(i)
    BY <2>4, LimitKept DEF GcDeleteReturns, Leave, Pending, cluster, TypeOK
  <2>5. CASE LimitReached(i)
    BY <2>5, LimitKept DEF LimitReached, Pending, cluster, TypeOK
  <2>6. CASE LimitOk(i)
    <3>1. /\ cms' = cms /\ landing' = landing
          /\ Cardinality(cms) < MaxObjects
      BY <2>6 DEF LimitOk, cluster
    <3>2. Cardinality(Pending') <= Cardinality(Instances) /\ Cardinality(Pending') \in Nat
      <4>1. (TypeOK => /\ Cardinality(Pending) <= Cardinality(Instances)
                       /\ Cardinality(Pending) \in Nat)'
        BY CountedFinite, PTL
      <4>2. QED
        BY <4>1
    <3>3. Cardinality(cms \cup landing) <= MaxObjects - 1 + MaxLanding
      BY <3>1, CountedFinite, ConfigAssumption, EnvironmentAssumption DEF
         LimitInv
    <3>4. Cardinality(cms' \cup landing') + Cardinality(Pending') <= Cap
      BY <3>1, <3>2, <3>3, CountedFinite, ConfigAssumption,
         EnvironmentAssumption DEF Cap
    <3>5. QED
      BY <3>1, <3>4 DEF LimitInv, Cap
  <2>7. ASSUME NEW n \in Names, StartCreate(i, n) PROVE LimitInv'
    BY <2>7, LimitKept DEF StartCreate, Call, Pending, cluster, TypeOK
  <2>8. CASE CreateReturns(i)
    BY <2>8, LimitKept DEF CreateReturns, Call, Pending, cluster, TypeOK
  <2>9. CASE GetReturns(i)
    BY <2>9, LimitKept DEF GetReturns, Call, Pending, cluster, TypeOK
  <2>10. CASE GetNotFound(i)
    BY <2>10, LimitKept DEF GetNotFound, Defer, Call, Pending, cluster, TypeOK
  <2>11. CASE DeleteReturns(i)
    BY <2>11, LimitKept DEF DeleteReturns, Defer, Call, Pending, cluster, TypeOK
  <2>12. CASE DeferredReturns(i)
    BY <2>12, LimitKept DEF DeferredReturns, Leave, Pending, cluster, TypeOK
  <2>13. CASE Record(i)
    BY <2>13, LimitKept DEF Record, Pending, cluster, TypeOK
  <2>14. QED
    BY <1>2, <2>1, <2>2, <2>3, <2>4, <2>5, <2>6, <2>7, <2>8, <2>9, <2>10,
       <2>11, <2>12, <2>13 DEF Proceed
<1>3. ASSUME NEW i \in Instances, GcListOk(i) PROVE LimitInv'
  BY <1>3, LimitKept DEF GcListOk, Pending, cluster, TypeOK
<1>4. ASSUME NEW i \in Instances, NEW e \in Errors, CallFails(i, e)
      PROVE  LimitInv'
  <2>1. CASE GcListFails(i, e)
    BY <2>1, LimitKept DEF GcListFails, Pending, cluster, TypeOK
  <2>2. CASE GcDeleteFails(i, e)
    BY <2>2, LimitKept DEF GcDeleteFails, GiveUpDelete, Leave, Pending, TypeOK
  <2>3. CASE LimitFails(i, e)
    BY <2>3, LimitKept DEF LimitFails, Pending, cluster, TypeOK
  <2>4. CASE CreateFails(i, e)
    <3>1. /\ landing' = landing \/ (reply[i] = "none" /\ landing' = landing \cup {cm[i]})
          /\ Cardinality(landing') <= MaxLanding
      BY <2>4, GiveUpCreateCounted DEF CreateFails
    <3>2. /\ cms' = cms /\ pc[i] = "create"
          /\ Pending' \subseteq Pending \ {i}
      BY <2>4 DEF CreateFails, Leave, Pending, TypeOK
    <3>3. CASE landing' = landing
      BY <3>2, <3>3, LimitKept
    <3>4. CASE reply[i] = "none" /\ landing' = landing \cup {cm[i]}
      <4>1. i \in Pending
        BY <3>2, <3>4 DEF Pending
      <4>2. (cms \cup landing)' \subseteq (cms \cup landing) \cup {cm[i]}
        BY <3>2, <3>4
      <4>3. QED
        BY <3>1, <3>2, <4>1, <4>2, LimitMoved
    <3>5. QED
      BY <3>1, <3>3, <3>4
  <2>5. CASE GetFails(i, e)
    BY <2>5, LimitKept DEF GetFails, Defer, Call, Pending, cluster, TypeOK
  <2>6. CASE DeleteFails(i, e)
    BY <2>6, LimitKept DEF DeleteFails, GiveUpDelete, Defer, Call, Pending,
       TypeOK
  <2>7. CASE DeferredFails(i, e)
    BY <2>7, LimitKept DEF DeferredFails, GiveUpDelete, Leave, Pending, TypeOK
  <2>8. QED
    BY <1>4, <2>1, <2>2, <2>3, <2>4, <2>5, <2>6, <2>7 DEF CallFails
<1>5. ASSUME NEW i \in Instances, ServeCreate(i) PROVE LimitInv'
  <2>1. /\ i \in Pending /\ Pending' \subseteq Pending \ {i}
    BY <1>5 DEF ServeCreate, Pending, TypeOK
  <2>2. /\ (cms \cup landing)' \subseteq (cms \cup landing) \cup {cm[i]}
        /\ landing' = landing
    BY <1>5 DEF ServeCreate, Store
  <2>3. QED
    BY <2>1, <2>2, LimitMoved DEF LimitInv
<1>6. ASSUME NEW i \in Instances, ServeDelete(i) PROVE LimitInv'
  BY <1>6, LimitKept DEF ServeDelete, Pending, TypeOK
<1>7. ASSUME NEW i \in Instances, Crash(i) PROVE LimitInv'
  <2>1. cms' = cms /\ Pending' \subseteq Pending \ {i}
    BY <1>7 DEF Crash, Leave, Pending, TypeOK
  <2>2. CASE landing' = landing
    BY <2>1, <2>2, LimitKept
  <2>3. CASE landing' # landing
    <3>1. pc[i] = "create" /\ GiveUpCreate(i)
      BY <1>7, <2>3 DEF Crash, GiveUpDelete
    <3>2. /\ reply[i] = "none" /\ landing' = landing \cup {cm[i]}
          /\ Cardinality(landing') <= MaxLanding
      BY <2>3, <3>1, GiveUpCreateCounted
    <3>3. i \in Pending
      BY <3>1, <3>2 DEF Pending
    <3>4. (cms \cup landing)' \subseteq (cms \cup landing) \cup {cm[i]}
      BY <2>1, <3>2
    <3>5. QED
      BY <2>1, <3>2, <3>3, <3>4, LimitMoved
  <2>4. QED
    BY <2>2, <2>3
<1>8. ASSUME NEW i \in Instances, Restart(i) PROVE LimitInv'
  BY <1>8, LimitKept DEF Restart, Pending, cluster, TypeOK
<1>9. ASSUME NEW n \in Names, Land(n) PROVE LimitInv'
  BY <1>9, LimitKept DEF Land, Store, Pending, run
<1>10. ASSUME NEW n \in Names, Doom(n) PROVE LimitInv'
  BY <1>10, LimitKept DEF Doom, Pending, run
<1>11. CASE Tick
  BY <1>11, LimitKept DEF Tick, Pending
<1>12. QED
  BY <1>1, <1>2, <1>3, <1>4, <1>5, <1>6, <1>7, <1>8, <1>9, <1>10, <1>11
     DEF Next

\* The invariant gives the bound.
LEMMA LimitCounts == TypeOK /\ LimitInv => LimitBound
<1> SUFFICES ASSUME TypeOK, LimitInv PROVE LimitBound
  OBVIOUS
<1>1. Cardinality(cms) <= Cardinality(cms \cup landing)
  BY CountedFinite, FS_Subset
<1>2. Cardinality(Instances) \in Nat
  BY CountedFinite
<1>3. QED
  BY <1>1, <1>2, CountedFinite, ConfigAssumption, EnvironmentAssumption
     DEF LimitInv, LimitBound, Cap

\* What is counted stays within the cap.
LEMMA LimitInvariant == Spec => []LimitInv
<1>1. Init => LimitInv
  <2> SUFFICES ASSUME Init PROVE LimitInv
    OBVIOUS
  <2>1. cms = {} /\ landing = {} /\ cms \cup landing = {} /\ Pending = {}
    BY DEF Init, Pending
  <2>2. Cardinality(Instances) \in Nat /\ Cardinality(Instances) # 0
    BY InstancesAssumption, FS_CardinalityType, FS_EmptySet
  <2>3. QED
    BY <2>1, <2>2, FS_EmptySet, ConfigAssumption, EnvironmentAssumption
       DEF LimitInv, Cap
<1>2. QED
  BY <1>1, TypeCorrect, LimitStep, PTL DEF Spec

\* The number of ConfigMaps of a checker never exceeds its limit by more than
\* the other instances and the creates in flight: check-then-create in
\* api_server.go can overshoot by that much and by no more.
THEOREM LimitHolds == Spec => []LimitBound
  BY TypeCorrect, LimitInvariant, LimitCounts, PTL

\* A sole process none of whose creates is served late keeps to the documented
\* limit: what breaks LimitAsDocumented is one of the two and nothing else.
THEOREM LimitWhenAlone ==
    Cardinality(Instances) = 1 /\ MaxLanding = 0 => (Spec => []LimitAsDocumented)
<1> SUFFICES ASSUME Cardinality(Instances) = 1, MaxLanding = 0
             PROVE  Spec => []LimitAsDocumented
  OBVIOUS
<1>1. LimitBound => LimitAsDocumented
  BY ConfigAssumption DEF LimitBound, LimitAsDocumented, Cap
<1> QED
  BY <1>1, LimitHolds, PTL

-----------------------------------------------------------------------------
(* The ConfigMap of a run. Two runs never work with the same name; nobody  *)
(* knows a name before its create is served; and while a run in time holds *)
(* a ConfigMap, age and budget together stay within the run's timeout, so  *)
(* no collection has found it old and no delete of it is under way.        *)

Owns(i) == pc[i] \in {"create", "get", "delete", "deferred"}

OwnersDiffer ==
    \A i, j \in Instances : i # j /\ Owns(i) /\ Owns(j) => cm[i] # cm[j]

UnservedUnknown ==
    \A i \in Instances : pc[i] = "create" /\ reply[i] = "none" =>
        /\ cm[i] \notin cms /\ cm[i] \notin landing /\ cm[i] \notin doomed
        /\ \A j \in Instances :
            /\ cm[i] \notin gcTodo[j]
            /\ pc[j] = "gcDelete" => cm[j] # cm[i]

HeldYoung ==
    \A i \in Instances : Holding(i) /\ InTime(i) =>
        /\ cm[i] \in cms /\ cm[i] \notin doomed
        /\ age[cm[i]] + left[i] <= Timeout + Granule - 1
        /\ \A j \in Instances : pc[j] = "gcDelete" => cm[j] # cm[i]

OwnInv == OwnersDiffer /\ UnservedUnknown /\ HeldYoung

\* Every step keeps the invariant.
LEMMA OwnStep == TypeOK /\ OwnInv /\ [Next]_vars => OwnInv'
<1> SUFFICES ASSUME TypeOK, OwnInv, [Next]_vars PROVE OwnInv'
  OBVIOUS
<1>0. TypeOK'
  BY TypeStep
<1> USE <1>0, InstancesAssumption, NamesAssumption, ConfigAssumption,
        EnvironmentAssumption
<1> USE DEF TypeOK, OwnInv, OwnersDiffer, UnservedUnknown, HeldYoung, Owns,
            Holding, InTime, cluster, run, DeletePCs, PCs, Replies
<1>1. CASE UNCHANGED vars
  BY <1>1 DEF vars
<1>2. ASSUME NEW i \in Instances, Proceed(i) PROVE OwnInv'
  <2>1. CASE StartRun(i)
    BY <2>1 DEF StartRun
  <2>2. ASSUME NEW n \in Names, GcNext(i, n) PROVE OwnInv'
    BY <2>2 DEF GcNext, Call, OldAge
  <2>3. CASE GcDone(i)
    BY <2>3 DEF GcDone
  <2>4. CASE GcDeleteReturns(i)
    BY <2>4 DEF GcDeleteReturns, Leave
  <2>5. CASE LimitReached(i)
    BY <2>5 DEF LimitReached
  <2>6. CASE LimitOk(i)
    BY <2>6 DEF LimitOk
  <2>7. ASSUME NEW n \in Names, StartCreate(i, n) PROVE OwnInv'
    BY <2>7 DEF StartCreate, Call, Fresh, Least
  <2>8. CASE CreateReturns(i)
    BY <2>8 DEF CreateReturns, Call, Least
  <2>9. CASE GetReturns(i)
    BY <2>9 DEF GetReturns, Call, Least
  <2>10. CASE GetNotFound(i)
    BY <2>10 DEF GetNotFound, Defer, Call
  <2>11. CASE DeleteReturns(i)
    BY <2>11 DEF DeleteReturns, Defer, Call
  <2>12. CASE DeferredReturns(i)
    BY <2>12 DEF DeferredReturns, Leave
  <2>13. CASE Record(i)
    BY <2>13 DEF Record
  <2>14. QED
    BY <1>2, <2>1, <2>2, <2>3, <2>4, <2>5, <2>6, <2>7, <2>8, <2>9, <2>10,
       <2>11, <2>12, <2>13 DEF Proceed
<1>3. ASSUME NEW i \in Instances, GcListOk(i) PROVE OwnInv'
  BY <1>3 DEF GcListOk
<1>4. ASSUME NEW i \in Instances, NEW e \in Errors, CallFails(i, e)
      PROVE  OwnInv'
  <2>1. CASE GcListFails(i, e)
    BY <2>1 DEF GcListFails
  <2>2. CASE GcDeleteFails(i, e)
    BY <2>2 DEF GcDeleteFails, GiveUpDelete, Leave
  <2>3. CASE LimitFails(i, e)
    BY <2>3 DEF LimitFails
  <2>4. CASE CreateFails(i, e)
    BY <2>4 DEF CreateFails, GiveUpCreate, Leave
  <2>5. CASE GetFails(i, e)
    BY <2>5 DEF GetFails, Defer, Call
  <2>6. CASE DeleteFails(i, e)
    BY <2>6 DEF DeleteFails, GiveUpDelete, Defer, Call
  <2>7. CASE DeferredFails(i, e)
    BY <2>7 DEF DeferredFails, GiveUpDelete, Leave
  <2>8. QED
    BY <1>4, <2>1, <2>2, <2>3, <2>4, <2>5, <2>6, <2>7 DEF CallFails
<1>5. ASSUME NEW i \in Instances, ServeCreate(i) PROVE OwnInv'
  BY <1>5 DEF ServeCreate, Store, Least, OldAge
<1>6. ASSUME NEW i \in Instances, ServeDelete(i) PROVE OwnInv'
  BY <1>6 DEF ServeDelete
<1>7. ASSUME NEW i \in Instances, Crash(i) PROVE OwnInv'
  BY <1>7 DEF Crash, GiveUpCreate, GiveUpDelete, Leave
<1>8. ASSUME NEW i \in Instances, Restart(i) PROVE OwnInv'
  BY <1>8 DEF Restart
<1>9. ASSUME NEW n \in Names, Land(n) PROVE OwnInv'
  BY <1>9 DEF Land, Store, Least, OldAge
<1>10. ASSUME NEW n \in Names, Doom(n) PROVE OwnInv'
  BY <1>10 DEF Doom
<1>11. CASE Tick
  BY <1>11 DEF Tick, Known, Least, OldAge
<1>12. QED
  BY <1>1, <1>2, <1>3, <1>4, <1>5, <1>6, <1>7, <1>8, <1>9, <1>10, <1>11
     DEF Next

\* What runs in time hold stays young and unknown to every delete.
LEMMA OwnInvariant == Spec => []OwnInv
<1>1. Init => OwnInv
  BY DEF Init, OwnInv, OwnersDiffer, UnservedUnknown, HeldYoung, Owns, Holding,
         InTime
<1>2. QED
  BY <1>1, TypeCorrect, OwnStep, PTL DEF Spec

\* While a run is in time, its ConfigMap is there: neither the garbage
\* collection of any instance nor a late delete takes it.
THEOREM OwnObjectHolds == Spec => []OwnObjectSurvives
<1>1. OwnInv => OwnObjectSurvives
  BY DEF OwnInv, HeldYoung, OwnObjectSurvives
<1>2. QED
  BY <1>1, OwnInvariant, PTL

-----------------------------------------------------------------------------
(* What a Healthy run leaves. Once its Delete is served its name is in no  *)
(* request that could store it again: creates of other runs are of other   *)
(* names, and its own was served before its Get.                           *)

OwnedLandsNot == \A i \in Instances : Owns(i) => cm[i] \notin landing

DeletedIsGone ==
    \A i \in Instances : pc[i] = "delete" /\ reply[i] = "ok" => cm[i] \notin cms

\* A result is there only while the run ends. Nobody else takes the name of a
\* Healthy run.
ResultsLast ==
    \A i \in Instances :
        /\ result[i] # "none" => pc[i] \in {"deferred", "record"}
        /\ result[i] = "Healthy" =>
            \A j \in Instances : i # j /\ Owns(j) => cm[i] # cm[j]

GoneInv == OwnedLandsNot /\ DeletedIsGone /\ ResultsLast /\ HealthyLeavesNothing

\* Every step keeps the invariant.
LEMMA GoneStep == TypeOK /\ OwnersDiffer /\ GoneInv /\ [Next]_vars => GoneInv'
<1> SUFFICES ASSUME TypeOK, OwnersDiffer, GoneInv, [Next]_vars PROVE GoneInv'
  OBVIOUS
<1>0. TypeOK'
  BY TypeStep
<1> USE <1>0, NamesAssumption
<1> USE DEF TypeOK, OwnersDiffer, GoneInv, OwnedLandsNot, DeletedIsGone,
            ResultsLast, HealthyLeavesNothing, Owns, cluster, run, DeletePCs,
            PCs, Replies
<1>1. CASE UNCHANGED vars
  BY <1>1 DEF vars
<1>2. ASSUME NEW i \in Instances, Proceed(i) PROVE GoneInv'
  <2>1. CASE StartRun(i)
    BY <2>1 DEF StartRun
  <2>2. ASSUME NEW n \in Names, GcNext(i, n) PROVE GoneInv'
    BY <2>2 DEF GcNext, Call
  <2>3. CASE GcDone(i)
    BY <2>3 DEF GcDone
  <2>4. CASE GcDeleteReturns(i)
    BY <2>4 DEF GcDeleteReturns, Leave
  <2>5. CASE LimitReached(i)
    BY <2>5 DEF LimitReached
  <2>6. CASE LimitOk(i)
    BY <2>6 DEF LimitOk
  <2>7. ASSUME NEW n \in Names, StartCreate(i, n) PROVE GoneInv'
    BY <2>7 DEF StartCreate, Call, Fresh
  <2>8. CASE CreateReturns(i)
    BY <2>8 DEF CreateReturns, Call
  <2>9. CASE GetReturns(i)
    BY <2>9 DEF GetReturns, Call
  <2>10. CASE GetNotFound(i)
    BY <2>10 DEF GetNotFound, Defer, Call
  <2>11. CASE DeleteReturns(i)
    BY <2>11 DEF DeleteReturns, Defer, Call
  <2>12. CASE DeferredReturns(i)
    BY <2>12 DEF DeferredReturns, Leave
  <2>13. CASE Record(i)
    BY <2>13 DEF Record
  <2>14. QED
    BY <1>2, <2>1, <2>2, <2>3, <2>4, <2>5, <2>6, <2>7, <2>8, <2>9, <2>10,
       <2>11, <2>12, <2>13 DEF Proceed
<1>3. ASSUME NEW i \in Instances, GcListOk(i) PROVE GoneInv'
  BY <1>3 DEF GcListOk
<1>4. ASSUME NEW i \in Instances, NEW e \in Errors, CallFails(i, e)
      PROVE  GoneInv'
  <2>1. CASE GcListFails(i, e)
    BY <2>1 DEF GcListFails
  <2>2. CASE GcDeleteFails(i, e)
    BY <2>2 DEF GcDeleteFails, GiveUpDelete, Leave
  <2>3. CASE LimitFails(i, e)
    BY <2>3 DEF LimitFails
  <2>4. CASE CreateFails(i, e)
    BY <2>4 DEF CreateFails, GiveUpCreate, Leave, CreateCode
  <2>5. CASE GetFails(i, e)
    BY <2>5 DEF GetFails, Defer, Call, GetCode
  <2>6. CASE DeleteFails(i, e)
    BY <2>6 DEF DeleteFails, GiveUpDelete, Defer, Call, DeleteCode
  <2>7. CASE DeferredFails(i, e)
    BY <2>7 DEF DeferredFails, GiveUpDelete, Leave
  <2>8. QED
    BY <1>4, <2>1, <2>2, <2>3, <2>4, <2>5, <2>6, <2>7 DEF CallFails
<1>5. ASSUME NEW i \in Instances, ServeCreate(i) PROVE GoneInv'
  BY <1>5 DEF ServeCreate, Store
<1>6. ASSUME NEW i \in Instances, ServeDelete(i) PROVE GoneInv'
  BY <1>6 DEF ServeDelete
<1>7. ASSUME NEW i \in Instances, Crash(i) PROVE GoneInv'
  BY <1>7 DEF Crash, GiveUpCreate, GiveUpDelete, Leave
<1>8. ASSUME NEW i \in Instances, Restart(i) PROVE GoneInv'
  BY <1>8 DEF Restart
<1>9. ASSUME NEW n \in Names, Land(n) PROVE GoneInv'
  BY <1>9 DEF Land, Store
<1>10. ASSUME NEW n \in Names, Doom(n) PROVE GoneInv'
  BY <1>10 DEF Doom
<1>11. CASE Tick
  BY <1>11 DEF Tick
<1>12. QED
  BY <1>1, <1>2, <1>3, <1>4, <1>5, <1>6, <1>7, <1>8, <1>9, <1>10, <1>11
     DEF Next

\* A run that ends Healthy leaves no ConfigMap and no create that could bring
\* it back, whatever its deferred Delete meets.
THEOREM HealthyIsClean == Spec => []HealthyLeavesNothing
<1>1. Init => GoneInv
  BY DEF Init, GoneInv, OwnedLandsNot, DeletedIsGone, ResultsLast,
         HealthyLeavesNothing, Owns
<1>2. OwnInv => OwnersDiffer
  BY DEF OwnInv
<1>3. GoneInv => HealthyLeavesNothing
  BY DEF GoneInv
<1>4. QED
  BY <1>1, <1>2, <1>3, TypeCorrect, OwnInvariant, GoneStep, PTL DEF Spec

-----------------------------------------------------------------------------
(* The object pool.                                                        *)

\* A step that leaves the ConfigMaps alone can only let go of some.
LEMMA PoolAbandons ==
    ASSUME TypeOK, cms' = cms,
           \A i \in Instances : (Holding(i) /\ InTime(i))' =>
               Holding(i) /\ InTime(i) /\ cm'[i] = cm[i]
    PROVE  [Pool!PoolNext]_(Pool!poolVars)
<1> DEFINE S == HeldObjects \ HeldObjects'
<1>1. HeldObjects' \subseteq HeldObjects
  BY DEF HeldObjects
<1>2. \A i \in Instances : Holding(i) => cm[i] \in Names
  BY DEF TypeOK, Holding, DeletePCs
<1>3. S \in SUBSET Names
  BY <1>2 DEF HeldObjects
<1>4. Pool!Abandon(S)
  BY <1>1 DEF Pool!Abandon
<1>5. QED
  BY <1>3, <1>4 DEF Pool!PoolNext

\* A step that adds a ConfigMap found room for it.
LEMMA RoomFound ==
    ASSUME TypeOK, TypeOK', LimitInv', NEW n, n \notin cms, cms' = cms \cup {n}
    PROVE  Pool!HasRoom
<1>1. /\ IsFiniteSet(cms) /\ Cardinality(cms) \in Nat
      /\ Cardinality(Instances) \in Nat
  BY CountedFinite
<1>2. Cardinality(cms') = Cardinality(cms) + 1
  BY <1>1, FS_AddElement, Zenon
<1>3. (TypeOK /\ LimitInv => LimitBound)'
  BY LimitCounts, PTL
<1>4. Cardinality(cms) < Cap
  BY <1>1, <1>2, <1>3, ConfigAssumption, EnvironmentAssumption
     DEF LimitBound, Cap
<1>5. Pool!Cardinality(cms) = Cardinality(cms)
  BY Zenon DEF Pool!Cardinality, Cardinality
<1>6. QED
  BY <1>4, <1>5 DEF Pool!HasRoom

\* A step that removes a ConfigMap nobody in time holds sweeps litter.
LEMMA PoolSweeps ==
    ASSUME NEW n \in Names, n \notin HeldObjects, cms' = cms \ {n},
           HeldObjects' = HeldObjects
    PROVE  [Pool!PoolNext]_(Pool!poolVars)
<1>1. CASE n \in cms
  BY <1>1 DEF Pool!Sweep, Pool!PoolNext
<1>2. CASE n \notin cms
  BY <1>2 DEF Pool!poolVars
<1>3. QED
  BY <1>1, <1>2

\* Every step is one of the pool's.
LEMMA PoolStep ==
    ASSUME TypeOK, TypeOK', LimitInv, LimitInv', OwnInv, [Next]_vars
    PROVE  [Pool!PoolNext]_(Pool!poolVars)
<1>1. ASSUME NEW i \in Instances, ServeCreate(i)
      PROVE  [Pool!PoolNext]_(Pool!poolVars)
  <2>1. /\ cm[i] \in Names /\ cm[i] \notin cms /\ cms' = cms \cup {cm[i]}
    BY <1>1 DEF ServeCreate, Store, TypeOK, OwnInv, UnservedUnknown
  <2>2. Pool!HasRoom
    BY <2>1, RoomFound
  <2>3. /\ cm' = cm /\ left' = left /\ ~Holding(i) /\ Holding(i)'
        /\ \A j \in Instances \ {i} : Holding(j)' <=> Holding(j)
    BY <1>1 DEF ServeCreate, Holding, TypeOK
  <2>4. CASE InTime(i)
    <3>1. HeldObjects' = HeldObjects \cup {cm[i]}
      BY <2>3, <2>4 DEF HeldObjects, InTime
    <3>2. QED
      BY <2>1, <2>2, <3>1 DEF Pool!Obtain, Pool!PoolNext
  <2>5. CASE ~InTime(i)
    <3>1. HeldObjects' = HeldObjects
      BY <2>3, <2>5 DEF HeldObjects, InTime
    <3>2. QED
      BY <2>1, <2>2, <3>1 DEF Pool!Appear, Pool!PoolNext
  <2>6. QED
    BY <2>4, <2>5
<1>2. ASSUME NEW i \in Instances, ServeDelete(i)
      PROVE  [Pool!PoolNext]_(Pool!poolVars)
  <2>1. /\ cm[i] \in Names /\ cms' = cms \ {cm[i]} /\ cm' = cm /\ left' = left
        /\ ~Holding(i)'
        /\ \A j \in Instances \ {i} : Holding(j)' <=> Holding(j)
    BY <1>2 DEF ServeDelete, TypeOK, Holding, DeletePCs
  <2>2. \A j \in Instances \ {i} : Holding(j) /\ InTime(j) => cm[j] # cm[i]
    BY <1>2 DEF ServeDelete, OwnInv, OwnersDiffer, HeldYoung, Holding, Owns,
                DeletePCs
  <2>3. CASE Holding(i) /\ InTime(i)
    <3>1. cm[i] \in HeldObjects /\ HeldObjects' = HeldObjects \ {cm[i]}
      BY <2>1, <2>2, <2>3 DEF HeldObjects, InTime
    <3>2. QED
      BY <2>1, <3>1 DEF Pool!Release, Pool!PoolNext
  <2>4. CASE ~(Holding(i) /\ InTime(i))
    <3>1. cm[i] \notin HeldObjects /\ HeldObjects' = HeldObjects
      BY <2>1, <2>2, <2>4 DEF HeldObjects, InTime
    <3>2. QED
      BY <2>1, <3>1, PoolSweeps
  <2>5. QED
    BY <2>3, <2>4
<1>3. ASSUME NEW n \in Names, Land(n)
      PROVE  [Pool!PoolNext]_(Pool!poolVars)
  <2>1. HeldObjects' = HeldObjects
    BY <1>3 DEF Land, run, HeldObjects, Holding, InTime
  <2>2. cms' = cms \/ cms' = cms \cup {n}
    BY <1>3 DEF Land, Store
  <2>3. CASE cms' = cms
    BY <2>1, <2>3 DEF Pool!poolVars
  <2>4. CASE cms' = cms \cup {n} /\ n \notin cms
    BY <2>1, <2>4, RoomFound DEF Pool!Appear, Pool!PoolNext
  <2>5. QED
    BY <2>2, <2>3, <2>4
<1>4. ASSUME NEW n \in Names, Doom(n)
      PROVE  [Pool!PoolNext]_(Pool!poolVars)
  <2>1. HeldObjects' = HeldObjects
    BY <1>4 DEF Doom, run, HeldObjects, Holding, InTime
  <2>2. n \notin HeldObjects
    BY <1>4 DEF Doom, HeldObjects, OwnInv, HeldYoung
  <2>3. QED
    BY <1>4, <2>1, <2>2, PoolSweeps DEF Doom, Pool!poolVars
<1>5. CASE Tick
  BY <1>5, PoolAbandons, EnvironmentAssumption
     DEF Tick, Holding, InTime, TypeOK
<1>6. ASSUME NEW i \in Instances, GcListOk(i) \/ Crash(i) \/ Restart(i)
      PROVE  [Pool!PoolNext]_(Pool!poolVars)
  BY <1>6, PoolAbandons
     DEF GcListOk, Crash, Leave, Restart, cluster, Holding, InTime, TypeOK
<1>7. ASSUME NEW i \in Instances, NEW e \in Errors, CallFails(i, e)
      PROVE  [Pool!PoolNext]_(Pool!poolVars)
  <2>1. CASE GcListFails(i, e) \/ LimitFails(i, e)
    BY <2>1, PoolAbandons
       DEF GcListFails, LimitFails, cluster, Holding, InTime, TypeOK
  <2>2. CASE GcDeleteFails(i, e) \/ CreateFails(i, e) \/ DeferredFails(i, e)
    BY <2>2, PoolAbandons
       DEF GcDeleteFails, CreateFails, DeferredFails, Leave, Holding, InTime,
           TypeOK
  <2>3. CASE GetFails(i, e) \/ DeleteFails(i, e)
    BY <2>3, PoolAbandons
       DEF GetFails, DeleteFails, Defer, Call, cluster, Holding, InTime, TypeOK
  <2>4. QED
    BY <1>7, <2>1, <2>2, <2>3 DEF CallFails
<1>8. ASSUME NEW i \in Instances, Proceed(i)
      PROVE  [Pool!PoolNext]_(Pool!poolVars)
  <2> USE DEF cluster, Holding, InTime, TypeOK
  <2>1. CASE StartRun(i) \/ GcDone(i) \/ LimitReached(i) \/ LimitOk(i) \/ Record(i)
    BY <2>1, PoolAbandons DEF StartRun, GcDone, LimitReached, LimitOk, Record
  <2>2. ASSUME NEW n \in Names, GcNext(i, n) \/ StartCreate(i, n)
        PROVE  [Pool!PoolNext]_(Pool!poolVars)
    BY <2>2, PoolAbandons DEF GcNext, StartCreate, Call
  <2>3. CASE GcDeleteReturns(i) \/ DeferredReturns(i)
    BY <2>3, PoolAbandons DEF GcDeleteReturns, DeferredReturns, Leave
  <2>4. CASE CreateReturns(i) \/ GetReturns(i)
    BY <2>4, PoolAbandons DEF CreateReturns, GetReturns, Call
  <2>5. CASE GetNotFound(i) \/ DeleteReturns(i)
    BY <2>5, PoolAbandons DEF GetNotFound, DeleteReturns, Defer, Call
  <2>6. QED
    BY <1>8, <2>1, <2>2, <2>3, <2>4, <2>5 DEF Proceed
<1>9. CASE UNCHANGED vars
  BY <1>9 DEF vars, Pool!poolVars, HeldObjects, Holding, InTime
<1>10. QED
  BY <1>1, <1>2, <1>3, <1>4, <1>5, <1>6, <1>7, <1>8, <1>9 DEF Next

\* The checker implements the object pool.
THEOREM PoolImplemented == Spec => ImplementsPool
<1>1. Init => Pool!PoolInit
  BY DEF Init, Pool!PoolInit, HeldObjects, Holding
<1>2. QED
  BY <1>1, TypeCorrect, LimitInvariant, OwnInvariant, PoolStep, PTL
     DEF Spec, ImplementsPool, Pool!PoolSpec

-----------------------------------------------------------------------------
(* Runs come to an end, as far as safety goes.                             *)

\* No call's context outlasts its run's, and outside calls there is none.
CallsFit ==
    \A i \in Instances :
        /\ callLeft[i] <= left[i]
        /\ pc[i] \notin {"create", "get"} \cup DeletePCs => callLeft[i] = 0

\* A call's context is derived from the run's.
LEMMA CallFits ==
    ASSUME TypeOK, CallsFit, NEW i \in Instances, NEW step, NEW n, NEW budget \in Int,
           Call(i, step, n, budget), budget <= left[i], UNCHANGED left,
           step \in {"create", "get"} \cup DeletePCs
    PROVE  CallsFit'
BY DEF TypeOK, CallsFit, Call

\* A step keeps the contexts of calls within their runs'.
LEMMA CallsStep == TypeOK /\ CallsFit /\ [Next]_vars => CallsFit'
<1> SUFFICES ASSUME TypeOK, CallsFit, [Next]_vars PROVE CallsFit'
  OBVIOUS
<1> USE DEF cluster, run, DeletePCs
<1>1. \A i \in Instances : /\ left[i] \in Int /\ callLeft[i] \in Int /\ 0 <= left[i]
                           /\ Least(left[i], MutateTimeout) \in Int
                           /\ Least(left[i], MutateTimeout) <= left[i]
                           /\ Least(left[i], ReadTimeout) \in Int
                           /\ Least(left[i], ReadTimeout) <= left[i]
  BY ConfigAssumption DEF TypeOK, Least
<1>2. ASSUME NEW i \in Instances, UNCHANGED callLeft, left'[i] >= left[i] \/ callLeft[i] = 0,
             left' = [left EXCEPT ![i] = left'[i]], left'[i] \in Int, left'[i] >= 0,
             \A j \in Instances : \/ pc'[j] = pc[j] \/ callLeft[j] = 0
                                  \/ pc'[j] \in {"create", "get"} \cup DeletePCs
      PROVE  CallsFit'
  BY <1>1, <1>2 DEF TypeOK, CallsFit
<1>3. ASSUME NEW i \in Instances, NEW step, Leave(i, step), UNCHANGED left \/ left' = [left EXCEPT ![i] = 0]
      PROVE  CallsFit'
  BY <1>1, <1>3 DEF TypeOK, CallsFit, Leave
<1>4. CASE UNCHANGED vars
  BY <1>4 DEF vars, CallsFit
<1>5. ASSUME NEW i \in Instances,
             \/ StartRun(i) \/ GcListOk(i) \/ GcDone(i) \/ LimitReached(i) \/ LimitOk(i)
             \/ Record(i) \/ Restart(i) \/ (\E e \in Errors : GcListFails(i, e) \/ LimitFails(i, e))
      PROVE  CallsFit'
  <2>1. callLeft[i] = 0
    BY <1>5 DEF StartRun, GcListOk, GcDone, LimitReached, LimitOk, Record, Restart, GcListFails,
                LimitFails, CallsFit
  <2>2. /\ UNCHANGED callLeft /\ \A j \in Instances \ {i} : pc'[j] = pc[j]
        /\ left'[i] \in Int /\ left'[i] >= 0 /\ left' = [left EXCEPT ![i] = left'[i]]
    BY <1>1, <1>5, ConfigAssumption
       DEF StartRun, GcListOk, GcDone, LimitReached, LimitOk, Record, Restart, GcListFails,
           LimitFails, TypeOK
  <2> QED
    BY <1>2, <2>1, <2>2
<1>6. ASSUME NEW i \in Instances, NEW n \in Names, GcNext(i, n) PROVE CallsFit'
  <2>1. CASE Call(i, "gcDelete", n, left[i])
    BY <1>1, <1>6, <2>1, CallFits DEF GcNext
  <2>2. CASE UNCHANGED <<pc, callLeft>>
    BY <1>6, <2>2 DEF GcNext, CallsFit
  <2> QED
    BY <1>6, <2>1, <2>2 DEF GcNext
<1>7. ASSUME NEW i \in Instances,
             \/ \E n \in Names : StartCreate(i, n)
             \/ CreateReturns(i) \/ GetReturns(i) \/ GetNotFound(i) \/ DeleteReturns(i)
             \/ \E e \in Errors : GetFails(i, e) \/ DeleteFails(i, e)
      PROVE  CallsFit'
  <2>1. /\ UNCHANGED left
        /\ \E step \in {"create", "get"} \cup DeletePCs,
              budget \in {left[i], Least(left[i], MutateTimeout), Least(left[i], ReadTimeout)} :
                \E n : Call(i, step, n, budget)
    BY <1>7 DEF StartCreate, CreateReturns, GetReturns, GetNotFound, DeleteReturns, GetFails,
                DeleteFails, Defer
  <2> QED
    BY <1>1, <2>1, CallFits
<1>8. ASSUME NEW i \in Instances,
             \/ GcDeleteReturns(i) \/ DeferredReturns(i) \/ Crash(i)
             \/ \E e \in Errors : GcDeleteFails(i, e) \/ CreateFails(i, e) \/ DeferredFails(i, e)
      PROVE  CallsFit'
  BY <1>3, <1>8 DEF GcDeleteReturns, DeferredReturns, Crash, GcDeleteFails, CreateFails,
                    DeferredFails
<1>9. ASSUME \/ \E i \in Instances : ServeCreate(i) \/ ServeDelete(i)
             \/ \E n \in Names : Land(n) \/ Doom(n)
      PROVE  CallsFit'
  BY <1>9 DEF ServeCreate, ServeDelete, Land, Doom, CallsFit
<1>10. CASE Tick
  BY <1>1, <1>10 DEF Tick, CallsFit
<1> QED
  BY <1>4, <1>5, <1>6, <1>7, <1>8, <1>9, <1>10 DEF Next, Proceed, CallFails

\* The numbers that StepsLeft is made of.
LEMMA StepCounts ==
    ASSUME TypeOK
    PROVE  /\ Cardinality(Names) \in Nat
           /\ \A S \in SUBSET Names : /\ Cardinality(S) \in Nat
                                      /\ Cardinality(S) <= Cardinality(Names)
                                      /\ \A n \in S : Cardinality(S \ {n}) = Cardinality(S) - 1
<1>1. IsFiniteSet(Names) /\ \A S \in SUBSET Names : IsFiniteSet(S)
  BY NamesAssumption, FS_Subset
<1> QED
  BY <1>1, FS_Subset, FS_CardinalityType, FS_RemoveElement

\* A step of a run of its own brings it closer to its end.
LEMMA OwnStepShrinks ==
    ASSUME TypeOK, NEW i \in Instances, pc[i] \notin {"idle", "down"},
           Proceed(i) \/ GcListOk(i) \/ \E e \in Errors : CallFails(i, e)
    PROVE  StepsLeft(i)' < StepsLeft(i)
<1> DEFINE todo == Cardinality(gcTodo[i])
           all == Cardinality(Names)
<1>1. todo \in Nat /\ all \in Nat /\ gcTodo[i] \in SUBSET Names
  BY StepCounts DEF TypeOK
<1>2. CASE GcListOk(i)
  <2>1. Cardinality(gcTodo'[i]) \in Nat /\ Cardinality(gcTodo'[i]) <= all
    BY <1>2, StepCounts DEF GcListOk, TypeOK
  <2>2. pc[i] = "gcList" /\ pc'[i] = "gcNext"
    BY <1>2 DEF GcListOk, TypeOK
  <2> QED
    BY <1>1, <2>1, <2>2 DEF StepsLeft
<1>3. ASSUME NEW n \in Names, GcNext(i, n) PROVE StepsLeft(i)' < StepsLeft(i)
  <2>1. Cardinality(gcTodo'[i]) = todo - 1
    BY <1>1, <1>3, StepCounts DEF GcNext, TypeOK
  <2>2. pc[i] = "gcNext" /\ pc'[i] \in {"gcNext", "gcDelete"}
    BY <1>3 DEF GcNext, Call, TypeOK
  <2> QED
    BY <1>1, <2>1, <2>2 DEF StepsLeft
<1>4. CASE GcDeleteReturns(i) \/ \E e \in Errors : GcDeleteFails(i, e)
  <2>1. pc[i] = "gcDelete" /\ pc'[i] = "gcNext" /\ gcTodo'[i] = gcTodo[i]
    BY <1>4 DEF GcDeleteReturns, GcDeleteFails, Leave, TypeOK
  <2> QED
    BY <1>1, <2>1 DEF StepsLeft
<1>5. CASE GcDone(i) \/ \E e \in Errors : GcListFails(i, e)
  <2>1. pc[i] \in {"gcList", "gcNext"} /\ pc'[i] = "limit"
    BY <1>5 DEF GcDone, GcListFails, TypeOK
  <2> QED
    BY <1>1, <2>1 DEF StepsLeft
<1>6. CASE \/ LimitReached(i) \/ LimitOk(i) \/ (\E n \in Names : StartCreate(i, n))
           \/ CreateReturns(i) \/ Record(i)
           \/ \E e \in Errors : LimitFails(i, e) \/ CreateFails(i, e)
  <2>1. \/ pc[i] = "limit" /\ pc'[i] \in {"record", "room"}
        \/ pc[i] = "room" /\ pc'[i] = "create"
        \/ pc[i] = "create" /\ pc'[i] \in {"get", "record"}
        \/ pc[i] = "record" /\ pc'[i] = "idle"
    BY <1>6 DEF LimitReached, LimitOk, StartCreate, CreateReturns, Record, LimitFails,
                CreateFails, Call, Leave, TypeOK
  <2> QED
    BY <2>1 DEF StepsLeft
<1>7. CASE \/ GetReturns(i) \/ GetNotFound(i) \/ DeleteReturns(i) \/ DeferredReturns(i)
           \/ \E e \in Errors : GetFails(i, e) \/ DeleteFails(i, e) \/ DeferredFails(i, e)
  <2>1. \/ pc[i] = "get" /\ pc'[i] \in {"delete", "deferred"}
        \/ pc[i] = "delete" /\ pc'[i] = "deferred"
        \/ pc[i] = "deferred" /\ pc'[i] = "record"
    BY <1>7 DEF GetReturns, GetNotFound, DeleteReturns, DeferredReturns, GetFails, DeleteFails,
                DeferredFails, Defer, Call, Leave, TypeOK
  <2> QED
    BY <2>1 DEF StepsLeft
<1>8. ~StartRun(i)
  BY DEF StartRun
<1> QED
  BY <1>2, <1>3, <1>4, <1>5, <1>6, <1>7, <1>8 DEF Proceed, CallFails

\* Nothing makes a run longer.
LEMMA NothingProlongs ==
    ASSUME TypeOK, [Next]_vars, NEW i \in Instances, pc[i] \notin {"idle", "down"}
    PROVE  StepsLeft(i)' <= StepsLeft(i) /\ left'[i] <= left[i]
<1> USE DEF cluster, run, Call, Leave, Defer
<1>0. left[i] \in Nat /\ StepsLeft(i) \in Nat
  <2>1. Cardinality(gcTodo[i]) \in Nat /\ Cardinality(Names) \in Nat
    BY StepCounts DEF TypeOK
  <2> QED
    BY <2>1 DEF StepsLeft, TypeOK
<1>1. CASE UNCHANGED <<pc, gcTodo, left>>
  BY <1>0, <1>1 DEF StepsLeft
<1>2. ASSUME NEW j \in Instances, Proceed(j) \/ GcListOk(j) \/ \E e \in Errors : CallFails(j, e)
      PROVE  StepsLeft(i)' <= StepsLeft(i) /\ left'[i] <= left[i]
  <2>1. /\ left'[i] <= left[i]
        /\ j # i => pc'[i] = pc[i] /\ gcTodo'[i] = gcTodo[i]
    <3>1. CASE Proceed(j)
      BY <1>0, <3>1 DEF Proceed, StartRun, GcNext, GcDone, GcDeleteReturns, LimitReached, LimitOk,
                  StartCreate, CreateReturns, GetReturns, GetNotFound, DeleteReturns,
                  DeferredReturns, Record, TypeOK
    <3>2. CASE GcListOk(j)
      BY <1>0, <3>2 DEF GcListOk, TypeOK
    <3>3. ASSUME NEW e \in Errors, CallFails(j, e)
          PROVE  left'[i] <= left[i] /\ (j # i => pc'[i] = pc[i] /\ gcTodo'[i] = gcTodo[i])
      BY <1>0, <3>3 DEF CallFails, GcListFails, GcDeleteFails, LimitFails, CreateFails, GetFails,
                  DeleteFails, DeferredFails, TypeOK
    <3> QED
      BY <1>2, <3>1, <3>2, <3>3
  <2>2. CASE j = i
    <3>1. StepsLeft(i)' < StepsLeft(i)
      BY <1>2, <2>2, OwnStepShrinks
    <3>2. StepsLeft(i)' \in Int
      <4>1. gcTodo'[i] \in SUBSET Names
        BY TypeStep DEF TypeOK
      <4>2. Cardinality(gcTodo'[i]) \in Nat /\ Cardinality(Names) \in Nat
        BY <4>1, StepCounts
      <4> QED
        BY <4>2 DEF StepsLeft
    <3> QED
      BY <1>0, <2>1, <3>1, <3>2
  <2>3. CASE j # i
    BY <1>0, <2>1, <2>3 DEF StepsLeft
  <2> QED
    BY <2>2, <2>3
<1>3. ASSUME NEW j \in Instances, Crash(j) \/ Restart(j)
      PROVE  StepsLeft(i)' <= StepsLeft(i) /\ left'[i] <= left[i]
  <2>1. /\ left'[i] <= left[i]
        /\ (pc'[i] = pc[i] /\ gcTodo'[i] = gcTodo[i]) \/ pc'[i] = "down"
    BY <1>0, <1>3 DEF Crash, Restart, TypeOK
  <2> QED
    BY <1>0, <2>1 DEF StepsLeft
<1>4. CASE Tick
  BY <1>0, <1>4 DEF Tick, StepsLeft
<1>5. CASE \/ \E j \in Instances : ServeCreate(j) \/ ServeDelete(j)
           \/ \E n \in Names : Land(n) \/ Doom(n)
  BY <1>1, <1>5 DEF ServeCreate, ServeDelete, Land, Doom
<1>6. CASE UNCHANGED vars
  BY <1>1, <1>6 DEF vars
<1> QED
  BY <1>2, <1>3, <1>4, <1>5, <1>6 DEF Next

\* A run takes no more than twice as many steps as there are names, and nine, each
\* of which waits no longer than the run's time: the safety part of RunEnds.
THEOREM RunsEnd == Spec => RunsShrink
<1>1. Init => CallsFit
  BY DEF Init, CallsFit
<1>2. TypeOK /\ CallsFit /\ CallsFit' /\ [Next]_vars
        => [\A i \in Instances : pc[i] \notin {"idle", "down"} =>
                /\ StepsLeft(i)' <= StepsLeft(i)
                /\ Proceed(i) \/ GcListOk(i) \/ (\E e \in Errors : CallFails(i, e))
                    => StepsLeft(i)' < StepsLeft(i)
                /\ callLeft'[i] <= left'[i] /\ left'[i] <= left[i]]_vars
  BY OwnStepShrinks, NothingProlongs DEF CallsFit
<1> QED
  BY <1>1, <1>2, CallsStep, TypeCorrect, PTL DEF Spec, RunsShrink

=============================================================================
