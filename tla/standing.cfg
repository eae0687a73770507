SPECIFICATION Spec
CONSTANTS
    Generators = {g1}
    Carriers = {c1}
    Manifests = {m1}
    Checks = {}
    Requests = {r1, r2}
    None = None
    Seeded = {g1, c1, m1}
    GeneratorSeed = "restricted"
    CarrierSeed = "pending"
    ManifestSeed = "draft"
    CheckSeed = "pending"
    GeneratorVersions = 2
    CarrierVersions = 2
    ManifestVersions = 2
    CheckVersions = 1
    MaxTime = 1
    Ahead = 0
    Seed <- MCSeed
    MaxVersion <- MCMaxVersion
SYMMETRY Slots
PROPERTIES
    RevocationHolds
    LapseHolds
