SPECIFICATION Spec
CONSTANTS
    Instances = {i1}
    Label <- OneName
    Stamps = {t1, t2, t3}
    NoStamp = NoStamp
    CSIConfigs <- StorageCSIs
    EnableNodeProvisioningTest = FALSE
    MaxSyntheticPods = 1
    MaxLate = 1
    CanCrash = TRUE
    GcInTime = FALSE
SYMMETRY StampSymmetry
VIEW View
INVARIANTS
    TypeOK
    ResourceBounds
    CleanRunLeavesNothing
