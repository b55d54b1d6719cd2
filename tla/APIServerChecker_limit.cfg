\* The documented limit, with a single instance.
SPECIFICATION Spec
CONSTANTS
    Instances = {i1}
    Names = {n1, n2, n3}
    NoName = NoName
    MaxObjects = 1
    Timeout = 2
    MutateTimeout = 1
    ReadTimeout = 1
    Granule = 1
    MaxLanding = 1
    MaxCrashes = 0
VIEW View
INVARIANTS
    LimitAsDocumented
