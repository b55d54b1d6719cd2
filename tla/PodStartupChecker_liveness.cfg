SPECIFICATION FairSpec
CONSTANTS
    Instances = {i1}
    Label <- OneName
    Stamps = {t1}
    NoStamp = NoStamp
    CSIConfigs <- FileCSI
    EnableNodeProvisioningTest = TRUE
    MaxSyntheticPods = 1
    MaxLate = 0
    CanCrash = FALSE
    GcInTime = TRUE
INVARIANT
    CleanRunLeavesNothing
PROPERTIES
    RunsShrink
    EventuallyGone
