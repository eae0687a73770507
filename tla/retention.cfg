SPECIFICATION Spec
CONSTANTS
    Generators = {g1}
    Carriers = {c1}
    Manifests = {m1}
    Checks = {}
    Requests = {r1, r2}
    None = None
    Seeded = {g1, c1, m1}
    GeneratorSeed = "active"
    CarrierSeed = "verified"
    ManifestSeed = "draft"
    CheckSeed = "pending"
    GeneratorVersions = 1
    CarrierVersions = 1
    ManifestVersions = 3
    CheckVersions = 1
    MaxTime = 0
    Ahead = 0
    Seed <- MCSeed
    MaxVersion <- MCMaxVersion
PROPERTIES
    RetainedForCompliance
