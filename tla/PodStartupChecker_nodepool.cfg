SPECIFICATION Spec
CONSTANTS
    Instances = {i1, i2}
    Label <- OwnName
    Stamps = {t1, t2}
    NoStamp = NoStamp
    CSIConfigs <- NoCSIs
    EnableNodeProvisioningTest = TRUE
    MaxSyntheticPods = 1
    MaxLate = 0
    CanCrash = FALSE
    GcInTime = FALSE
INVARIANT
    NodePoolSurvives
