------------------------ MODULE MC_PodStartupChecker ------------------------
(***************************************************************************)
(* PodStartupChecker for TLC: values for the constants that a .cfg cannot  *)
(* write, and a view that forgets the result, which no action reads.       *)
(***************************************************************************)
EXTENDS PodStartupChecker, TLC

OneName == [i \in Instances |-> "checker"]
OwnName == [i \in Instances |-> i]

NoCSIs == {<<>>}
DiskCSI == {<<"azureDisk">>}
FileCSI == {<<"azureFile">>}
StorageCSIs == {<<"azureDisk", "azureBlob">>, <<"azureFile">>}

View == <<enabledCSIs, objs, owner, old, leaving, late, pc, time, stamp, stage,
          todo, k, failed>>

StampSymmetry == Permutations(Stamps)
OneNameSymmetry == Permutations(Stamps) \cup Permutations(Instances)

=============================================================================
