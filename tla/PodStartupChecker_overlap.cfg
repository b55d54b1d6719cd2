SPECIFICATION Spec
CONSTANTS
    Instances = {i1, i2}
    Label <- OneName
    Stamps = {t1, t2, t3}
    NoStamp = NoStamp
    CSIConfigs <- DiskCSI
    EnableNodeProvisioningTest = FALSE
    MaxSyntheticPods = 1
    MaxLate = 0
    CanCrash = FALSE
    GcInTime = FALSE
SYMMETRY OneNameSymmetry
VIEW View
INVARIANTS
    OwnObjectsSurvive
    ResourceBounds
PROPERTY
    ImplementsPools
