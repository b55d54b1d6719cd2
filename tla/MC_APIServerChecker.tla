------------------------ MODULE MC_APIServerChecker ------------------------
(***************************************************************************)
(* APIServerChecker for TLC. Instances and names are interchangeable       *)
(* wherever only safety is checked. The view forgets the age of a name     *)
(* that no ConfigMap and no instance refers to: a create sets it anew.     *)
(***************************************************************************)
EXTENDS APIServerChecker, TLC

Symmetry == Permutations(Instances) \cup Permutations(Names)

InUse(n) == Known(n) \/ n \in {cm[i] : i \in Instances}

View == <<cms, landing, doomed, run, crashes,
          [n \in Names |-> IF InUse(n) THEN age[n] ELSE 0]>>

=============================================================================
