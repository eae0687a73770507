SPECIFICATION Spec
CONSTANTS
    Keys = {k1, k2, k3}
    Requests = {r1, r2}
    Limit = 1
    Capacity = 2
    RedisConfigured = TRUE
    MaxMinute = 1
    MaxSent = 3
SYMMETRY Alike
INVARIANTS
    TypeOK
    AdmittedWithinLimit
    RefusedOnlyWhenSpent
    LeftoversAreBounded
