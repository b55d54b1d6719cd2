\* Two overlapping instances: a rolling update, or a Pod being replaced. The
\* granule is so coarse that a run can meet its ConfigMap gone in its last tick.
SPECIFICATION Spec
CONSTANTS
    Instances = {i1, i2}
    Names = {n1, n2, n3}
    NoName = NoName
    MaxObjects = 1
    Timeout = 3
    MutateTimeout = 1
    ReadTimeout = 1
    Granule = 3
    MaxLanding = 0
    MaxCrashes = 1
SYMMETRY Symmetry
VIEW View
INVARIANTS
    TypeOK
    LimitBound
    OwnObjectSurvives
    HealthyLeavesNothing
PROPERTIES
    ImplementsPool
